---------------------------- MODULE Spec2Model ----------------------------
(***************************************************************************)
(* Model of the OpenAlex ingestion core of ufrj_dashboard:                 *)
(*   src/database/openalex_work_parser.py    (identifier normaliser,       *)
(*                                            record parser)               *)
(*   src/database/db_handlers.py             (insert_if_not_exists,        *)
(*                                            get_query_results, schema)   *)
(*   src/database/openalex_works_retriever.py (cursor-paginated harvest)   *)
(***************************************************************************)
EXTENDS Integers, Sequences, FiniteSets, TLC

(***************************************************************************)
(* Python / JSON values.  Every value carries a type tag so that None, the *)
(* empty string, the empty list and the empty dict stay distinct, as they  *)
(* are in Python.  An exception leaving a function is the value Raise(e).  *)
(***************************************************************************)
None == [t |-> "none"]

S(s) == [t |-> "str", v |-> s]

N(n) == [t |-> "int", n |-> n]

B(b) == [t |-> "bool", b |-> b]

L(q) == [t |-> "list", v |-> q]

\* a dict keeps the order in which its keys were inserted: the dict with the
\* entries of r, inserted in the order keys
Dict(keys, r) == [t |-> "dict", v |-> r, keys |-> keys]

\* the elements of a finite set, one after the other
RECURSIVE Listed(_)
Listed(set) ==
    IF set = {} THEN << >>
    ELSE LET e == CHOOSE e \in set : TRUE
         IN  << e >> \o Listed(set \ { e })

\* a dict written as a record, which has no order of its own: it stands for
\* the dict whose keys were inserted in the order Listed(DOMAIN r); a dict
\* with another insertion order is written Dict(keys, r)
D(r) == Dict(Listed(DOMAIN r), r)

Raise(e) == [t |-> "raise", exc |-> e]

EmptyDict == D(<<>>)

IsRaise(x) == x.t = "raise"

IsNone(x) == x.t = "none"

\* Python truth value of a JSON value (`if x`, `if not x`, `x or y`).
Truthy(x) ==
    CASE x.t = "none" -> FALSE
      [] x.t = "str"  -> x.v # ""
      [] x.t = "int"  -> x.n # 0
      [] x.t = "bool" -> x.b
      [] x.t = "list" -> x.v # <<>>
      [] x.t = "dict" -> DOMAIN x.v # {}
      [] OTHER        -> TRUE

\* a or b
Or(a, b) == IF Truthy(a) THEN a ELSE b

\* d.get(k, default); an exception already raised propagates, and a receiver
\* that is not a dict has no attribute 'get'.
Get(d, k, default) ==
    IF IsRaise(d) THEN d
    ELSE IF d.t # "dict" THEN Raise("AttributeError")
    ELSE IF k \in DOMAIN d.v THEN d.v[k] ELSE default

(***************************************************************************)
(* Strings, as Python's str methods compute them.                          *)
(***************************************************************************)
CharAt(s, i) == SubSeq(s, i, i)

UpperChars == "ABCDEFGHIJKLMNOPQRSTUVWXYZ"

LowerChars == "abcdefghijklmnopqrstuvwxyz"

LowerChar(c) ==
    IF \E i \in 1..Len(UpperChars) : CharAt(UpperChars, i) = c
    THEN CharAt(LowerChars, CHOOSE i \in 1..Len(UpperChars) : CharAt(UpperChars, i) = c)
    ELSE c

\* s.lower()
RECURSIVE Lower(_)
Lower(s) == IF s = "" THEN "" ELSE LowerChar(CharAt(s, 1)) \o Lower(SubSeq(s, 2, Len(s)))

\* s.rstrip('/')
RECURSIVE RStripSlash(_)
RStripSlash(s) ==
    IF Len(s) > 0 /\ CharAt(s, Len(s)) = "/"
    THEN RStripSlash(SubSeq(s, 1, Len(s) - 1))
    ELSE s

\* the positions at which sub occurs in s
Occurrences(sub, s) ==
    { i \in 1..(Len(s) - Len(sub) + 1) : SubSeq(s, i, i + Len(sub) - 1) = sub }

\* sub in s
Contains(sub, s) == Occurrences(sub, s) # {}

Max(A) == CHOOSE m \in A : \A a \in A : a <= m

\* s.split(sep)[-1]: what follows the last occurrence of sep, or s itself
SplitLast(s, sep) ==
    IF Occurrences(sep, s) = {} THEN s
    ELSE SubSeq(s, Max(Occurrences(sep, s)) + Len(sep), Len(s))

DoiMarker == "doi.org/"

\* OpenAlexWorkParser._clean_id without the trailing-slash removal
CleanIdNoStrip(x) ==
    IF IsRaise(x) THEN x
    ELSE IF ~Truthy(x) THEN None
    ELSE IF Contains(DoiMarker, Lower(x.v))
         THEN S(SplitLast(x.v, DoiMarker))
         ELSE S(SplitLast(x.v, "/"))

\* OpenAlexWorkParser._clean_id
CleanId(x) ==
    IF IsRaise(x) THEN x
    ELSE IF ~Truthy(x) THEN None
    ELSE LET id_str == RStripSlash(x.v)
         IN  IF Contains(DoiMarker, Lower(id_str))
             THEN S(SplitLast(id_str, DoiMarker))
             ELSE S(SplitLast(id_str, "/"))


(***************************************************************************)
(* Record parser: OpenAlexWorkParser.  A row is a Python dict D(r); a      *)
(* table is one row (works, primary_source) or a list of rows.             *)
(***************************************************************************)
\* first index of q whose element satisfies P, or 0
FirstIdx(q, P(_)) ==
    IF \E i \in 1..Len(q) : P(q[i])
    THEN CHOOSE i \in 1..Len(q) : P(q[i]) /\ \A j \in 1..(i - 1) : ~P(q[j])
    ELSE 0

\* a dict literal {k1: e1, k2: e2, ...}: the first entry whose evaluation
\* raised decides, otherwise the dict
Row(keys, r) ==
    LET bad == FirstIdx(keys, LAMBDA k : IsRaise(r[k]))
    IN  IF bad # 0 THEN r[keys[bad]] ELSE Dict(keys, r)

\* the elements a `for` loop over x visits; a dict is visited key by key in
\* the order the keys were inserted
Iter(x) ==
    CASE IsRaise(x)   -> x
      [] x.t = "list" -> x
      [] x.t = "dict" -> L([i \in 1..Len(x.keys) |-> S(x.keys[i])])
      [] x.t = "str"  -> L([i \in 1..Len(x.v) |-> S(CharAt(x.v, i))])
      [] OTHER        -> Raise("TypeError")

\* [F(e) for e in x], or the rows appended by `for e in x: rows.append(F(e))`
MapList(x, F(_)) ==
    LET it == Iter(x)
    IN  IF IsRaise(it) THEN it
        ELSE LET rs  == [i \in 1..Len(it.v) |-> F(it.v[i])]
                 bad == FirstIdx(rs, IsRaise)
             IN  IF bad # 0 THEN rs[bad] ELSE L(SubSeq(rs, 1, Len(rs)))

RECURSIVE ConcatAll(_)
ConcatAll(qs) == IF qs = <<>> THEN <<>> ELSE Head(qs).v \o ConcatAll(Tail(qs))

\* OpenAlexWorkParser.__init__: self._source
Source(json_data) ==
    Or(Get(Or(Get(json_data, "primary_location", None), EmptyDict), "source", None),
       EmptyDict)

WorksKeys ==
    << "work_id", "doi", "work_title", "publication_year", "publication_date",
       "work_type", "cited_by_count", "primary_source_id", "is_oa", "oa_status",
       "referenced_works_count", "indexed_in" >>

get_table_works(json_data) ==
    LET work == json_data
    IN  Row(WorksKeys,
            [ work_id                |-> CleanId(Get(work, "id", None)),
              doi                    |-> CleanId(Get(work, "doi", None)),
              work_title             |-> Get(work, "title", None),
              publication_year       |-> Get(work, "publication_year", None),
              publication_date       |-> Get(work, "publication_date", None),
              work_type              |-> Get(work, "type", None),
              cited_by_count         |-> Get(work, "cited_by_count", None),
              primary_source_id      |-> CleanId(Get(Source(json_data), "id", None)),
              is_oa                  |-> Get(Get(work, "open_access", EmptyDict), "is_oa", None),
              oa_status              |-> Get(Get(work, "open_access", EmptyDict), "oa_status", None),
              referenced_works_count |-> Get(work, "referenced_works_count", None),
              indexed_in             |-> Get(work, "indexed_in", L(<<>>)) ])

SourceKeys ==
    << "source_id", "source_name", "source_issn_l", "issn", "is_oa",
       "host_organization_id", "host_organization_name", "type" >>

get_table_primary_source(json_data) ==
    LET source == Source(json_data)
    IN  Row(SourceKeys,
            [ source_id              |-> CleanId(Get(source, "id", None)),
              source_name            |-> Get(source, "display_name", None),
              source_issn_l          |-> Get(source, "issn_l", None),
              issn                   |-> Get(source, "issn", L(<<>>)),
              is_oa                  |-> Get(source, "is_oa", None),
              host_organization_id   |-> CleanId(Get(source, "host_organization", None)),
              host_organization_name |-> Get(source, "host_organization_name", None),
              type                   |-> Get(source, "type", None) ])

AuthorshipKeys ==
    << "work_id", "author_id", "author_position", "is_corresponding", "institution_id" >>

get_table_authorships(json_data) ==
    MapList(Get(json_data, "authorships", L(<<>>)),
            LAMBDA authorship :
              Row(AuthorshipKeys,
                  [ work_id          |-> CleanId(Get(json_data, "id", None)),
                    author_id        |-> CleanId(Get(Get(authorship, "author", EmptyDict), "id", None)),
                    author_position  |-> Get(authorship, "author_position", None),
                    is_corresponding |-> Get(authorship, "is_corresponding", None),
                    institution_id   |->
                        MapList(Get(authorship, "institutions", L(<<>>)),
                                LAMBDA institution : CleanId(Get(institution, "id", None))) ]))

AuthorKeys == << "author_id", "author_name", "orcid" >>

get_table_authors(json_data) ==
    MapList(Get(json_data, "authorships", L(<<>>)),
            LAMBDA authorship :
              LET author == Get(authorship, "author", EmptyDict)
              IN  Row(AuthorKeys,
                      [ author_id   |-> CleanId(Get(author, "id", None)),
                        author_name |-> Get(author, "display_name", None),
                        orcid       |-> CleanId(Get(author, "orcid", None)) ]))

InstitutionKeys == << "institution_id", "institution_name", "ror", "type", "country_code" >>

\* the rows of one authorship's inner loop
InstitutionRowsOf(authorship) ==
    MapList(Get(authorship, "institutions", L(<<>>)),
            LAMBDA institution :
              Row(InstitutionKeys,
                  [ institution_id   |-> CleanId(Get(institution, "id", None)),
                    institution_name |-> Get(institution, "display_name", None),
                    ror              |-> CleanId(Get(institution, "ror", None)),
                    type             |-> Get(institution, "type", None),
                    country_code     |-> Get(institution, "country_code", None) ]))

get_table_institutions(json_data) ==
    LET perAuthorship == MapList(Get(json_data, "authorships", L(<<>>)), InstitutionRowsOf)
    IN  IF IsRaise(perAuthorship) THEN perAuthorship ELSE L(ConcatAll(perAuthorship.v))

CitedKeys == << "work_id", "year", "cited_count" >>

get_table_cited_by_year(json_data) ==
    MapList(Get(json_data, "counts_by_year", L(<<>>)),
            LAMBDA count :
              Row(CitedKeys,
                  [ work_id     |-> CleanId(Get(json_data, "id", None)),
                    year        |-> Get(count, "year", None),
                    cited_count |-> Get(count, "cited_by_count", None) ]))

TopicByWorkKeys == << "work_id", "topic_id", "score" >>

get_table_topics_by_work(json_data) ==
    MapList(Get(json_data, "topics", L(<<>>)),
            LAMBDA topic :
              Row(TopicByWorkKeys,
                  [ work_id  |-> CleanId(Get(json_data, "id", None)),
                    topic_id |-> CleanId(Get(topic, "id", None)),
                    score    |-> Get(topic, "score", None) ]))

TopicKeys ==
    << "topic_id", "topic_name", "subfield_id", "subfield_name", "field_id",
       "field_name", "domain_id", "domain_name" >>

get_table_topics(json_data) ==
    MapList(Get(json_data, "topics", L(<<>>)),
            LAMBDA topic :
              Row(TopicKeys,
                  [ topic_id      |-> CleanId(Get(topic, "id", None)),
                    topic_name    |-> Get(topic, "display_name", None),
                    subfield_id   |-> CleanId(Get(Get(topic, "subfield", EmptyDict), "id", None)),
                    subfield_name |-> Get(Get(topic, "subfield", EmptyDict), "display_name", None),
                    field_id      |-> CleanId(Get(Get(topic, "field", EmptyDict), "id", None)),
                    field_name    |-> Get(Get(topic, "field", EmptyDict), "display_name", None),
                    domain_id     |-> CleanId(Get(Get(topic, "domain", EmptyDict), "id", None)),
                    domain_name   |-> Get(Get(topic, "domain", EmptyDict), "display_name", None) ]))

\* the same entries with the keys in alphabetical order
AllTablesAlphabetical(json_data) ==
    << [k |-> "authors",        v |-> get_table_authors(json_data)],
       [k |-> "authorships",    v |-> get_table_authorships(json_data)],
       [k |-> "cited_by_year",  v |-> get_table_cited_by_year(json_data)],
       [k |-> "institutions",   v |-> get_table_institutions(json_data)],
       [k |-> "primary_source", v |-> get_table_primary_source(json_data)],
       [k |-> "topics",         v |-> get_table_topics(json_data)],
       [k |-> "topics_by_work", v |-> get_table_topics_by_work(json_data)],
       [k |-> "works",          v |-> get_table_works(json_data)] >>

\* the dict literal of get_all_tables in its insertion order: a sequence of
\* (key, value) entries
AllTablesEntries(json_data) ==
    << [k |-> "primary_source", v |-> get_table_primary_source(json_data)],
       [k |-> "authors",        v |-> get_table_authors(json_data)],
       [k |-> "institutions",   v |-> get_table_institutions(json_data)],
       [k |-> "topics",         v |-> get_table_topics(json_data)],
       [k |-> "works",          v |-> get_table_works(json_data)],
       [k |-> "authorships",    v |-> get_table_authorships(json_data)],
       [k |-> "cited_by_year",  v |-> get_table_cited_by_year(json_data)],
       [k |-> "topics_by_work", v |-> get_table_topics_by_work(json_data)] >>

\* OpenAlexWorkParser(record).get_all_tables(): the constructor, then the dict
\* literal; the result is [t |-> "odict", v |-> entries] or the exception
get_all_tables(json_data) ==
    IF IsRaise(Source(json_data)) THEN Source(json_data)
    ELSE LET es  == AllTablesEntries(json_data)
             bad == FirstIdx(es, LAMBDA e : IsRaise(e.v))
         IN  IF bad # 0 THEN es[bad].v ELSE [t |-> "odict", v |-> es]

\* tables.get(name)
TablesGet(tables, name) ==
    LET i == FirstIdx(tables.v, LAMBDA e : e.k = name)
    IN  IF i = 0 THEN None ELSE tables.v[i].v

\* the candidate rows of a table value, as insert_if_not_exists sees them
\* (`if not isinstance(values, list): values = [values]`)
AsList(values) == IF values.t = "list" THEN values.v ELSE << values >>

(***************************************************************************)
(* Schema of OpenAlexDatabaseHandler and the relational store behind it.   *)
(* A stored row is a record over the table's columns; a table is the       *)
(* sequence of its committed rows in commit order.                         *)
(***************************************************************************)
\* OpenAlexDatabaseHandler.insert_order with two tables exchanged, so that a
\* fact table precedes the dimension table it references
InsertOrderWorksFirst ==
    << "works", "authors", "institutions", "topics",
       "primary_source", "authorships", "cited_by_year", "topics_by_work" >>

\* OpenAlexDatabaseHandler.insert_order with the institutions moved to the end
InsertOrderInstitutionsLast ==
    << "primary_source", "authors", "topics",
       "works", "authorships", "cited_by_year", "topics_by_work", "institutions" >>

\* OpenAlexDatabaseHandler.insert_order
insert_order ==
    << "primary_source", "authors", "institutions", "topics",
       "works", "authorships", "cited_by_year", "topics_by_work" >>

TableNames ==
    { "primary_source", "authors", "institutions", "topics",
      "works", "authorships", "cited_by_year", "topics_by_work" }

ToSet(q) == { q[i] : i \in 1..Len(q) }

\* the Column(...) declarations of each Table, in the order they are declared
ColumnList(t) ==
    CASE t = "works"          -> << "work_id", "doi", "work_title", "publication_year",
                                    "publication_date", "work_type", "cited_by_count",
                                    "primary_source_id", "is_oa", "oa_status",
                                    "referenced_works_count", "indexed_in" >>
      [] t = "primary_source" -> << "source_id", "source_name", "source_issn_l", "issn",
                                    "is_oa", "host_organization_id",
                                    "host_organization_name", "type" >>
      [] t = "authorships"    -> << "work_id", "author_id", "author_position",
                                    "is_corresponding", "institution_id" >>
      [] t = "authors"        -> << "author_id", "author_name", "orcid" >>
      [] t = "institutions"   -> << "institution_id", "institution_name", "ror", "type",
                                    "country_code" >>
      [] t = "cited_by_year"  -> << "work_id", "year", "cited_count" >>
      [] t = "topics_by_work" -> << "work_id", "topic_id", "score" >>
      [] t = "topics"         -> << "topic_id", "topic_name", "subfield_id",
                                    "subfield_name", "field_id", "field_name",
                                    "domain_id", "domain_name" >>

\* the names of the columns of each Table
Columns(t) == ToSet(ColumnList(t))

\* table.primary_key.columns.keys(): the columns declared primary_key=True
PrimaryKeys(t) ==
    CASE t = "works"          -> {"work_id"}
      [] t = "primary_source" -> {"source_id"}
      [] t = "authorships"    -> {"work_id", "author_id"}
      [] t = "authors"        -> {"author_id"}
      [] t = "institutions"   -> {"institution_id"}
      [] t = "cited_by_year"  -> {"work_id", "year"}
      [] t = "topics_by_work" -> {"work_id", "topic_id"}
      [] t = "topics"         -> {"topic_id"}

FK(col, ref, refcol) == [col |-> col, ref |-> ref, refcol |-> refcol]

\* the ForeignKey(...) declarations of each Table
ForeignKeys(t) ==
    CASE t = "works"          -> { FK("primary_source_id", "primary_source", "source_id") }
      [] t = "authorships"    -> { FK("work_id", "works", "work_id"),
                                   FK("author_id", "authors", "author_id") }
      [] t = "cited_by_year"  -> { FK("work_id", "works", "work_id") }
      [] t = "topics_by_work" -> { FK("work_id", "works", "work_id"),
                                   FK("topic_id", "topics", "topic_id") }
      [] OTHER                -> {}

EmptyDb == [t \in TableNames |-> <<>>]

\* the stored form of an inserted dict: columns not given are NULL
StoredRow(t, value) ==
    [c \in Columns(t) |-> IF c \in DOMAIN value.v THEN value.v[c] ELSE None]

\* an existence check that compares every column instead of the primary key
MatchingWholeRow(store, t, value) ==
    { i \in 1..Len(store[t]) : store[t][i] = StoredRow(t, value) }

\* the committed rows of table t whose primary key equals that of value
\* (select(table).where(*[table.c[key] == value[key] for key in primary_keys]))
Matching(store, t, value) ==
    { i \in 1..Len(store[t]) : \A k \in PrimaryKeys(t) : store[t][i][k] = value.v[k] }

\* the existence check answering "no such row" whatever the table holds
SelectNothing(store, t, value) == FALSE

\* `result = conn.execute(stmt).fetchone()` is a row
SelectFinds(store, t, value) == Matching(store, t, value) # {}

\* a primary-key test that skips a row only when all its key columns are null
AllKeysMissing(t, value) == \A k \in PrimaryKeys(t) : IsNone(Get(value, k, None))

\* the primary-key test that lets every row through
NoKeyMissing(t, value) == FALSE

\* any(value.get(key) is None for key in primary_keys)
AnyKeyMissing(t, value) == \E k \in PrimaryKeys(t) : IsNone(Get(value, k, None))

\* the store's verdict on INSERT: the constraint it rejects the row for, or "ok"
InsertVerdict(store, t, value) ==
    IF ~(DOMAIN value.v \subseteq Columns(t)) THEN "CompileError"
    ELSE IF \E k \in PrimaryKeys(t) : IsNone(StoredRow(t, value)[k]) THEN "NotNullViolation"
    ELSE IF \E i \in 1..Len(store[t]) :
               \A k \in PrimaryKeys(t) : store[t][i][k] = value.v[k] THEN "UniqueViolation"
    ELSE IF \E fk \in ForeignKeys(t) :
               /\ ~IsNone(StoredRow(t, value)[fk.col])
               /\ ~\E i \in 1..Len(store[fk.ref]) :
                      store[fk.ref][i][fk.refcol] = value.v[fk.col] THEN "ForeignKeyViolation"
    ELSE "ok"

(***************************************************************************)
(* The records the catalog API serves.  A page is a sequence of indices    *)
(* into Pool; a line of the JSONL sink is the index of the record written. *)
(***************************************************************************)
OA(id) == S("https://openalex.org/" \o id)

\* a work with a source, two authorships of the same author (each with the
\* same institution and an institution without id), one yearly count and one
\* topic
Record1 ==
    D([ id               |-> OA("W1"),
        doi              |-> S("https://doi.org/10.1/w1"),
        cited_by_count   |-> N(1),
        primary_location |-> D([ source |-> D([ id |-> OA("S1"),
                                                host_organization |-> OA("P1") ]) ]),
        open_access      |-> D([ is_oa |-> B(TRUE), oa_status |-> S("gold") ]),
        authorships      |->
            L(<< D([ author       |-> D([ id |-> OA("A1"),
                                          orcid |-> S("https://orcid.org/0000-0001") ]),
                     institutions |-> L(<< D([ id |-> OA("I1"),
                                               ror |-> S("https://ror.org/03490as77") ]),
                                           D([ id |-> None ]) >>) ]),
                 D([ author       |-> D([ id |-> OA("A1") ]),
                     institutions |-> L(<< D([ id |-> OA("I1") ]),
                                           D([ id |-> None ]) >>) ]) >>),
        counts_by_year   |-> L(<< D([ year |-> N(2020), cited_by_count |-> N(1) ]) >>),
        topics           |->
            L(<< D([ id       |-> OA("T1"),
                     score    |-> N(1),
                     subfield |-> D([ id |-> S("https://openalex.org/subfields/11") ]),
                     field    |-> D([ id |-> S("https://openalex.org/fields/1") ]),
                     domain   |-> D([ id |-> S("https://openalex.org/domains/2") ]) ]) >>) ])

\* the same work harvested again with a newer citation count, its source
\* null, its DOI under the resolver host written in capitals
Record2 ==
    D([ id               |-> OA("W1/"),
        doi              |-> S("https://DOI.ORG/10.1/w1"),
        cited_by_count   |-> N(2),
        primary_location |-> D([ source |-> None ]),
        counts_by_year   |-> L(<< D([ year |-> N(2020), cited_by_count |-> N(2) ]),
                                  D([ year |-> N(2021), cited_by_count |-> N(1) ]) >>) ])

\* a record without work id that carries a source, an author with an
\* institution, a yearly count and a topic
Record3 ==
    D([ primary_location |-> D([ source |-> D([ id |-> OA("S2") ]) ]),
        authorships      |-> L(<< D([ author       |-> D([ id |-> OA("A2") ]),
                                      institutions |-> L(<< D([ id |-> OA("I2") ]) >>) ]) >>),
        counts_by_year   |-> L(<< D([ year |-> N(2021), cited_by_count |-> N(3) ]) >>),
        topics           |-> L(<< D([ id |-> OA("T1") ]) >>) ])

\* a work whose topics field is present with a null value
Record4 ==
    D([ id     |-> OA("W2"),
        topics |-> None ])

Pool == << Record1, Record2, Record3, Record4 >>

\* get_all_tables of every pool record
ParsedPool == [i \in 1..Len(Pool) |-> get_all_tables(Pool[i])]

(***************************************************************************)
(* State.                                                                  *)
(*   db    the committed rows of every table                               *)
(*   sink  the file at the JSONL sink path: whether it exists, its lines   *)
(*   proc  per process: the frame of retrieve_works / process_and_store_   *)
(*         page / insert_if_not_exists it is executing                     *)
(*   arg, ret  argument and result of a function applied on its own        *)
(***************************************************************************)
VARIABLES db, sink, proc, arg, ret

vars == << db, sink, proc, arg, ret >>

\* bounds of the model
MaxFetches == 2

MaxRuns == 2

MaxBatch == 2

\* datetime.now().year
CurrentYear == 2026

\* the provider's page-size maximum
MaxPerPage == 200

Unset == [t |-> "unset"]

NoArgs ==
    [ ror |-> S("03490as77"),
      jsonl_filename |-> None, db_handler |-> FALSE, start_year |-> None,
      end_year |-> None, per_page |-> MaxPerPage, max_pages |-> None ]

\* a process that has not been started
IdleProc ==
    [ pc          |-> "idle",     \* where the process stands
      caller      |-> "none",     \* who called insert_if_not_exists
      args        |-> NoArgs,     \* the arguments of retrieve_works
      filters     |-> "",         \* the filter of the request URL
      cursor      |-> None,
      count       |-> 0,
      results     |-> <<>>,       \* the page being processed
      page_with_results |-> EmptyDict, \* the response, without its results
      rec         |-> 0,          \* index of the record being stored
      ti          |-> 0,          \* index into insert_order
      tname       |-> "none",     \* table of the running insert_if_not_exists
      values      |-> <<>>,       \* its candidate rows
      idx         |-> 0,          \* index of the candidate row at hand
      exc         |-> "none",     \* the exception that ended the call
      \* bookkeeping of the run, read by the properties only
      runs        |-> 0,          \* invocations of retrieve_works so far
      total       |-> 0,          \* fetches over all invocations
      budget      |-> MaxFetches, \* fetches the API answers over all invocations
      fetches     |-> 0,          \* fetches of this invocation
      wrote       |-> FALSE,      \* this invocation wrote to the sink or db
      existed     |-> FALSE,      \* the sink file existed at invocation
      sink0       |-> <<>>,       \* the sink's lines at invocation
      page        |-> <<>>,       \* the page fetched last
      seen        |-> <<>>,       \* the records of every page fetched, in order
      asked       |-> <<>>,       \* the cursor of every fetch, in order
      given       |-> <<>>,       \* meta.next_cursor of every response, in order
      calls       |-> <<>>,       \* the insert_if_not_exists calls for that page
      committed   |-> <<>>,       \* the rows this invocation committed, each
                                  \* with the record (line) it was parsed from
      repeat      |-> FALSE,      \* this direct call repeats the previous one
      prevExc     |-> "none" ]    \* the exception of the call it repeats, or
                                  \* of the invocation before this one

NoFile == [exists |-> FALSE, lines |-> <<>>]

\* line 0 stands for a line that was in the file before any run
OldFile == [exists |-> TRUE, lines |-> << 0 >>]

Set(p, r) == proc' = [proc EXCEPT ![p] = r]

(***************************************************************************)
(* retrieve_works: validation (lines 56-73)                                *)
(***************************************************************************)
\* line 56: not jsonl_filename and not db_handler
NoDestination(a) == ~Truthy(a.jsonl_filename) /\ ~a.db_handler

\* the sink check that never objects
NoCollision(a, file) == FALSE

\* a sink check that objects to a file with lines only
CollisionOnContent(a, file) == Truthy(a.jsonl_filename) /\ file.lines # << >>

\* line 59: jsonl_filename and os.path.exists(jsonl_filename)
SinkCollision(a, file) == Truthy(a.jsonl_filename) /\ file.exists


\* lines 65-70
YearsInvalid(a) ==
    \/ Truthy(a.start_year) /\ a.start_year.n > CurrentYear
    \/ Truthy(a.end_year) /\ a.end_year.n > CurrentYear
    \/ Truthy(a.start_year) /\ Truthy(a.end_year) /\ a.start_year.n > a.end_year.n

\* the page-size check that never objects
AnyPageSize(a) == FALSE

\* line 72: per_page > 200
PageSizeTooLarge(a) == a.per_page > MaxPerPage

\* the exception the validation raises, or "none"
ConfigError(a, file) ==
    IF NoDestination(a) THEN "ValueError"
    ELSE IF SinkCollision(a, file) THEN "FileExistsError"
    ELSE IF YearsInvalid(a) THEN "ValueError"
    ELSE IF PageSizeTooLarge(a) THEN "ValueError"
    ELSE "none"

\* a value as an f-string renders it
Format(x) == IF x.t = "int" THEN ToString(x.n) ELSE x.v

\* lines 76-82: the filter of the request URL
Filters(a) ==
    LET filters == "institutions.ror:" \o Format(a.ror)
    IN  IF Truthy(a.start_year) /\ Truthy(a.end_year)
        THEN filters \o ",publication_year:" \o Format(a.start_year)
                     \o "-" \o Format(a.end_year)
        ELSE IF Truthy(a.start_year)
             THEN filters \o ",publication_year:>=" \o Format(a.start_year)
             ELSE IF Truthy(a.end_year)
                  THEN filters \o ",publication_year:<=" \o Format(a.end_year)
                  ELSE filters

\* retrieve_works is invoked with arguments a; it raises a configuration
\* error or reaches the loop with the filter built, cursor = "*" and count = 0
RetrieveWorks(p, a) ==
    /\ proc[p].pc \in {"idle", "done", "failed"}
    /\ proc[p].runs < MaxRuns
    /\ LET e == ConfigError(a, sink)
       IN  Set(p, [IdleProc EXCEPT
                     !.pc      = IF e = "none" THEN "loop" ELSE "failed",
                     !.exc     = e,
                     !.args    = a,
                     !.filters = IF e = "none" THEN Filters(a) ELSE "",
                     !.cursor  = S("*"),
                     !.count   = 0,
                     !.runs    = proc[p].runs + 1,
                     !.total   = proc[p].total,
                     !.budget  = proc[p].budget,
                     !.prevExc = proc[p].exc,
                     !.existed = sink.exists,
                     !.sink0   = sink.lines ])
    /\ UNCHANGED << db, sink, arg, ret >>

(***************************************************************************)
(* retrieve_works: the pagination loop (lines 87-108)                      *)
(***************************************************************************)
\* `while cursor:`
CursorPresent(r) == Truthy(r.cursor)

\* `if max_pages is not None and count >= max_pages: break`
CapReached(r) == ~IsNone(r.args.max_pages) /\ r.count >= r.args.max_pages.n

\* a failed fetch after which the loop goes on and asks for the same cursor
FetchFailsAndRetries(p) ==
    /\ proc[p].pc = "loop"
    /\ CursorPresent(proc[p]) /\ ~CapReached(proc[p])
    /\ proc[p].total < proc[p].budget
    /\ Set(p, [proc[p] EXCEPT !.exc = "Exception", !.total = @ + 1, !.fetches = @ + 1,
                              !.asked = Append(@, proc[p].cursor)])
    /\ UNCHANGED << db, sink, arg, ret >>

\* requests.get(url) answers with a status other than 200: the run aborts
FetchFails(p) ==
    /\ proc[p].pc = "loop"
    /\ CursorPresent(proc[p]) /\ ~CapReached(proc[p])
    /\ proc[p].total < proc[p].budget
    /\ Set(p, [proc[p] EXCEPT !.pc = "failed", !.exc = "Exception",
                              !.total = @ + 1, !.fetches = @ + 1,
                              !.asked = Append(@, proc[p].cursor)])
    /\ UNCHANGED << db, sink, arg, ret >>

\* a response whose meta carries the next_cursor nxt
Meta(nxt) == D([meta |-> D([next_cursor |-> nxt])])

\* a response whose meta is null
NullMeta == D([meta |-> None])

\* line 107: page_with_results.get("meta", {}).get("next_cursor")
NextCursor(page_with_results) ==
    Get(Get(page_with_results, "meta", EmptyDict), "next_cursor", None)

\* requests.get(url) answers 200 with a page of results and the rest of the
\* response (its meta, if any)
FetchPage(p, pages, responses) ==
    /\ proc[p].pc = "loop"
    /\ CursorPresent(proc[p]) /\ ~CapReached(proc[p])
    /\ proc[p].total < proc[p].budget
    /\ \E page \in pages, response \in responses :
         LET nxt == NextCursor(response)
         IN  Set(p, [proc[p] EXCEPT
                   !.pc          = "store",
                   !.results     = page,
                   !.page_with_results = response,
                   !.total       = @ + 1,
                   !.fetches     = @ + 1,
                   !.page        = page,
                   !.seen        = @ \o page,
                   !.asked       = Append(@, proc[p].cursor),
                   !.given       = IF IsRaise(nxt) THEN @ ELSE Append(@, nxt),
                   !.calls       = <<>> ])
    /\ UNCHANGED << db, sink, arg, ret >>

\* the loop ends: the cursor is falsy or the page cap is reached
Finish(p) ==
    /\ proc[p].pc = "loop"
    /\ ~CursorPresent(proc[p]) \/ CapReached(proc[p])
    /\ Set(p, [proc[p] EXCEPT !.pc = "done"])
    /\ UNCHANGED << db, sink, arg, ret >>

(***************************************************************************)
(* process_and_store_page (lines 18-37)                                    *)
(***************************************************************************)
\* a sink write that stops after the first record of the page
StorePageFirstOnly(p) ==
    /\ proc[p].pc = "store"
    /\ IF Truthy(proc[p].args.jsonl_filename)
       THEN /\ sink' = [exists |-> TRUE,
                        lines  |-> sink.lines \o SubSeq(proc[p].results, 1, 1)]
            /\ Set(p, [proc[p] EXCEPT !.pc = "records", !.rec = 1, !.wrote = TRUE])
       ELSE /\ sink' = sink
            /\ Set(p, [proc[p] EXCEPT !.pc = "records", !.rec = 1])
    /\ UNCHANGED << db, arg, ret >>

\* a sink opened for writing instead of appending: the page replaces the file
StorePageOverwrites(p) ==
    /\ proc[p].pc = "store"
    /\ IF Truthy(proc[p].args.jsonl_filename)
       THEN /\ sink' = [exists |-> TRUE, lines |-> proc[p].results]
            /\ Set(p, [proc[p] EXCEPT !.pc = "records", !.rec = 1, !.wrote = TRUE])
       ELSE /\ sink' = sink
            /\ Set(p, [proc[p] EXCEPT !.pc = "records", !.rec = 1])
    /\ UNCHANGED << db, arg, ret >>

\* lines 26-29: append every record of the page to the sink, if one is given
StorePage(p) ==
    /\ proc[p].pc = "store"
    /\ IF Truthy(proc[p].args.jsonl_filename)
       THEN /\ sink' = [exists |-> TRUE, lines |-> sink.lines \o proc[p].results]
            /\ Set(p, [proc[p] EXCEPT !.pc = "records", !.rec = 1, !.wrote = TRUE])
       ELSE /\ sink' = sink
            /\ Set(p, [proc[p] EXCEPT !.pc = "records", !.rec = 1])
    /\ UNCHANGED << db, arg, ret >>

\* lines 32-34: the next record is parsed; a parser exception ends the run
ParseRecord(p) ==
    /\ proc[p].pc = "records"
    /\ proc[p].args.db_handler
    /\ proc[p].rec <= Len(proc[p].results)
    /\ LET tables == ParsedPool[proc[p].results[proc[p].rec]]
       IN  IF IsRaise(tables)
           THEN Set(p, [proc[p] EXCEPT !.pc = "failed", !.exc = tables.exc])
           ELSE Set(p, [proc[p] EXCEPT !.pc = "tables", !.ti = 1])
    /\ UNCHANGED << db, sink, arg, ret >>

\* the end of a page that does not take over the cursor of the response
EndPageKeepsCursor(p) ==
    /\ proc[p].pc = "records"
    /\ ~proc[p].args.db_handler \/ proc[p].rec > Len(proc[p].results)
    /\ Set(p, [proc[p] EXCEPT !.pc = "loop",
                              !.count = @ + 1, !.results = <<>>, !.rec = 0,
                              !.page_with_results = EmptyDict])
    /\ UNCHANGED << db, sink, arg, ret >>

\* a page left for the next fetch while records of it are still to be stored
EndPageEarly(p) ==
    /\ proc[p].pc = "records"
    /\ LET nxt == NextCursor(proc[p].page_with_results)
       IN  IF IsRaise(nxt)
           THEN Set(p, [proc[p] EXCEPT !.pc = "failed", !.exc = nxt.exc])
           ELSE Set(p, [proc[p] EXCEPT !.pc = "loop", !.cursor = nxt,
                                       !.count = @ + 1, !.results = <<>>, !.rec = 0,
                                       !.page_with_results = EmptyDict])
    /\ UNCHANGED << db, sink, arg, ret >>

\* the page is stored: line 107, cursor = the response's meta.next_cursor,
\* which raises AttributeError when meta is null, and line 108, count += 1
EndPage(p) ==
    /\ proc[p].pc = "records"
    /\ ~proc[p].args.db_handler \/ proc[p].rec > Len(proc[p].results)
    /\ LET nxt == NextCursor(proc[p].page_with_results)
       IN  IF IsRaise(nxt)
           THEN Set(p, [proc[p] EXCEPT !.pc = "failed", !.exc = nxt.exc])
           ELSE Set(p, [proc[p] EXCEPT !.pc = "loop", !.cursor = nxt,
                                       !.count = @ + 1, !.results = <<>>, !.rec = 0,
                                       !.page_with_results = EmptyDict])
    /\ UNCHANGED << db, sink, arg, ret >>

(***************************************************************************)
(* insert_if_not_exists (db_handlers.py lines 30-56), one step per         *)
(* existence check, INSERT and COMMIT                                      *)
(***************************************************************************)
\* insert_if_not_exists returns to its caller: the harvester goes on with the
\* next table of insert_order, or with the next record after the last table
Return(r) ==
    IF r.caller = "direct"
    THEN [r EXCEPT !.pc = "returned"]
    ELSE IF r.ti < Len(insert_order)
         THEN [r EXCEPT !.pc = "tables", !.ti = @ + 1,
                        !.tname = "none", !.values = <<>>, !.idx = 0]
         ELSE [r EXCEPT !.pc = "records", !.rec = @ + 1, !.ti = 0,
                        !.tname = "none", !.values = <<>>, !.idx = 0]

\* `for value in values`: on to the next candidate row, or out of the loop
AfterRow(r) ==
    IF r.idx < Len(r.values) THEN [r EXCEPT !.pc = "select", !.idx = @ + 1]
    ELSE Return(r)

\* insert_if_not_exists(table, values) is entered: lines 35-40
Enter(r, t, values) ==
    LET q == [r EXCEPT !.tname = t, !.values = AsList(values), !.idx = 1, !.pc = "select"]
    IN  IF AsList(values) = <<>> THEN Return(q) ELSE q

\* process_and_store_page, lines 36-37: the call for the next table
CallInsert(p) ==
    /\ proc[p].pc = "tables"
    /\ LET t      == insert_order[proc[p].ti]
           tables == ParsedPool[proc[p].results[proc[p].rec]]
       IN  Set(p, Enter([proc[p] EXCEPT
                           !.caller = "harvest",
                           !.calls  = Append(@, [rec |-> proc[p].rec, t |-> t,
                                                 values |-> TablesGet(tables, t)])],
                        t, TablesGet(tables, t)))
    /\ UNCHANGED << db, sink, arg, ret >>

\* a caller other than the harvester calls insert_if_not_exists(table, values);
\* the call is a repeat when the call before it had the same table and values
DirectInsert(p, t, values) ==
    /\ proc[p].pc \in {"idle", "returned", "failed"}
    /\ LET again == /\ proc[p].caller = "direct"
                    /\ proc[p].tname = t
                    /\ proc[p].values = AsList(values)
       IN  Set(p, Enter([proc[p] EXCEPT
                           !.caller  = "direct",
                           !.exc     = "none",
                           !.wrote   = FALSE,
                           !.committed = <<>>,
                           !.repeat  = again,
                           !.prevExc = IF again THEN proc[p].exc ELSE "none" ],
                        t, values))
    /\ UNCHANGED << db, sink, arg, ret >>

\* lines 42-44: a candidate row with a missing primary-key component is skipped
SkipRow(p) ==
    /\ proc[p].pc = "select"
    /\ AnyKeyMissing(proc[p].tname, proc[p].values[proc[p].idx])
    /\ Set(p, AfterRow(proc[p]))
    /\ UNCHANGED << db, sink, arg, ret >>

\* lines 46-50 and 55-56: the existence check by primary key; value[key]
\* raises KeyError for a key the row does not have
SelectRow(p) ==
    /\ proc[p].pc = "select"
    /\ ~AnyKeyMissing(proc[p].tname, proc[p].values[proc[p].idx])
    /\ IF ~(PrimaryKeys(proc[p].tname) \subseteq DOMAIN proc[p].values[proc[p].idx].v)
       THEN Set(p, [proc[p] EXCEPT !.pc = "failed", !.exc = "KeyError"])
       ELSE IF SelectFinds(db, proc[p].tname, proc[p].values[proc[p].idx])
            THEN Set(p, AfterRow(proc[p]))
            ELSE Set(p, [proc[p] EXCEPT !.pc = "insert"])
    /\ UNCHANGED << db, sink, arg, ret >>

\* an INSERT that never waits for another process
NeverBlocked(p) == FALSE

\* another process holds an uncommitted row with the same primary key
Blocked(p) ==
    \E q \in DOMAIN proc :
       /\ q # p
       /\ proc[q].pc = "commit"
       /\ proc[q].tname = proc[p].tname
       /\ \A k \in PrimaryKeys(proc[p].tname) :
             proc[q].values[proc[q].idx].v[k] = proc[p].values[proc[p].idx].v[k]

\* an INSERT that passes over a row whose key is taken
InsertRowAbsorbing(p) ==
    /\ proc[p].pc = "insert"
    /\ ~Blocked(p)
    /\ LET verdict == InsertVerdict(db, proc[p].tname, proc[p].values[proc[p].idx])
       IN  IF verdict = "ok"
           THEN Set(p, [proc[p] EXCEPT !.pc = "commit"])
           ELSE IF verdict = "UniqueViolation"
                THEN Set(p, AfterRow(proc[p]))
                ELSE Set(p, [proc[p] EXCEPT !.pc = "failed", !.exc = verdict])
    /\ UNCHANGED << db, sink, arg, ret >>

\* lines 51-52: the INSERT; a rejected row raises out of insert_if_not_exists
InsertRow(p) ==
    /\ proc[p].pc = "insert"
    /\ ~Blocked(p)
    /\ LET verdict == InsertVerdict(db, proc[p].tname, proc[p].values[proc[p].idx])
       IN  IF verdict = "ok"
           THEN Set(p, [proc[p] EXCEPT !.pc = "commit"])
           ELSE Set(p, [proc[p] EXCEPT !.pc = "failed", !.exc = verdict])
    /\ UNCHANGED << db, sink, arg, ret >>

\* a commit that is lost: the row is not persisted
CommitNothing(p) ==
    /\ proc[p].pc = "commit"
    /\ Set(p, AfterRow(proc[p]))
    /\ UNCHANGED << db, sink, arg, ret >>

\* a commit that replaces the rows of the table by the new row
CommitReplacing(p) ==
    /\ proc[p].pc = "commit"
    /\ db' = [db EXCEPT ![proc[p].tname] =
                << StoredRow(proc[p].tname, proc[p].values[proc[p].idx]) >>]
    /\ Set(p, AfterRow([proc[p] EXCEPT
                           !.wrote     = TRUE,
                           !.committed = Append(@, [t    |-> proc[p].tname,
                                                    line |-> IF proc[p].caller = "harvest"
                                                             THEN proc[p].results[proc[p].rec]
                                                             ELSE 0,
                                                    row  |-> StoredRow(proc[p].tname,
                                                               proc[p].values[proc[p].idx])])]))
    /\ UNCHANGED << sink, arg, ret >>

\* line 53: conn.commit()
CommitRow(p) ==
    /\ proc[p].pc = "commit"
    /\ db' = [db EXCEPT ![proc[p].tname] =
                Append(@, StoredRow(proc[p].tname, proc[p].values[proc[p].idx]))]
    /\ Set(p, AfterRow([proc[p] EXCEPT
                           !.wrote     = TRUE,
                           !.committed = Append(@, [t    |-> proc[p].tname,
                                                    line |-> IF proc[p].caller = "harvest"
                                                             THEN proc[p].results[proc[p].rec]
                                                             ELSE 0,
                                                    row  |-> StoredRow(proc[p].tname,
                                                               proc[p].values[proc[p].idx])])]))
    /\ UNCHANGED << sink, arg, ret >>

(***************************************************************************)
(* The harvest of one process against a nondeterministic catalog API       *)
(***************************************************************************)
Pages == { <<>>, << 1 >>, << 2, 1 >>, << 3 >>, << 1, 4 >> }

\* the responses apart from their results: with a null meta, with a
\* next_cursor that is null, empty, or a cursor
Cursors == { NullMeta, Meta(None), Meta(S("")), Meta(S("c1")) }

\* the invocations of the harvest: sink or database or both, with or without
\* a page cap
HarvestArgs ==
    { [NoArgs EXCEPT !.jsonl_filename = f, !.db_handler = d, !.max_pages = m] :
        f \in {None, S("out.jsonl")}, d \in BOOLEAN, m \in {None, N(1)} }

Procs == {1}

Init ==
    /\ db = EmptyDb
    /\ sink \in {NoFile, OldFile}
    /\ proc = [p \in Procs |-> IdleProc]
    /\ arg = Unset
    /\ ret = Unset

Next ==
    \E p \in Procs :
       \/ \E a \in HarvestArgs : RetrieveWorks(p, a)
       \/ FetchFails(p)
       \/ FetchPage(p, Pages, Cursors)
       \/ Finish(p)
       \/ StorePage(p)
       \/ ParseRecord(p)
       \/ EndPage(p)
       \/ CallInsert(p)
       \/ SkipRow(p)
       \/ SelectRow(p)
       \/ InsertRow(p)
       \/ CommitRow(p)

Spec == Init /\ [][Next]_vars

(***************************************************************************)
(* insert_if_not_exists called directly, with any table and any batch      *)
(***************************************************************************)
\* candidate rows of each table: keyed rows, rows with a null or missing
\* primary-key component, two works rows with the same key
DirectRows(t) ==
    CASE t = "primary_source" -> { D([source_id |-> S("S2")]), D([source_name |-> S("x")]) }
      [] t = "authors"        -> { D([author_id |-> S("A2")]) }
      [] t = "institutions"   -> { D([institution_id |-> S("I1")]) }
      [] t = "topics"         -> { D([topic_id |-> S("T1")]) }
      [] t = "works"          ->
            { D([work_id |-> S("W1"), primary_source_id |-> S("S2"), cited_by_count |-> N(1)]),
              D([work_id |-> S("W1"), cited_by_count |-> N(2)]),
              D([work_id |-> None, doi |-> S("10.1/w1")]) }
      [] t = "authorships"    -> { D([work_id |-> S("W1"), author_id |-> S("A2")]) }
      [] t = "cited_by_year"  ->
            { D([work_id |-> S("W1"), year |-> N(2020), cited_count |-> N(1)]),
              D([work_id |-> S("W1"), year |-> None]) }
      [] t = "topics_by_work" -> { D([work_id |-> S("W1"), topic_id |-> S("T1")]) }

\* the values argument: one row, or a list of at most MaxBatch rows
Batches(t) ==
    DirectRows(t) \cup
    { L(q) : q \in UNION { [1..n -> DirectRows(t)] : n \in 0..MaxBatch } }

NextInsert ==
    \E p \in Procs :
       \/ \E t \in TableNames : \E values \in Batches(t) : DirectInsert(p, t, values)
       \/ SkipRow(p)
       \/ SelectRow(p)
       \/ InsertRow(p)
       \/ CommitRow(p)

InitInsert == Init /\ sink = NoFile

SpecInsert == InitInsert /\ [][NextInsert]_vars

(***************************************************************************)
(* retrieve_works invoked once with any combination of arguments, against  *)
(* an API that serves one kind of page                                     *)
(***************************************************************************)
Years == { None, N(0), N(CurrentYear - 1), N(CurrentYear), N(CurrentYear + 1) }

AllArgs ==
    { [ ror |-> NoArgs.ror,
        jsonl_filename |-> f, db_handler |-> d, start_year |-> sy, end_year |-> ey,
        per_page |-> pp, max_pages |-> m ] :
        f \in {None, S(""), S("out.jsonl")}, d \in BOOLEAN, sy \in Years, ey \in Years,
        pp \in {MaxPerPage, MaxPerPage + 1}, m \in {None, N(0)} }

ArgPages == { << 2 >> }

ArgCursors == { EmptyDict, Meta(S("c1")) }

\* the process has one invocation left
InitArgs ==
    /\ db = EmptyDb
    /\ sink \in {NoFile, OldFile}
    /\ proc = [p \in Procs |-> [IdleProc EXCEPT !.runs = MaxRuns - 1]]
    /\ arg = Unset
    /\ ret = Unset

NextArgs ==
    \E p \in Procs :
       \/ \E a \in AllArgs : RetrieveWorks(p, a)
       \/ FetchFails(p)
       \/ FetchPage(p, ArgPages, ArgCursors)
       \/ Finish(p)
       \/ StorePage(p)
       \/ ParseRecord(p)
       \/ EndPage(p)
       \/ CallInsert(p)
       \/ SkipRow(p)
       \/ SelectRow(p)
       \/ InsertRow(p)
       \/ CommitRow(p)

SpecArgs == InitArgs /\ [][NextArgs]_vars

(***************************************************************************)
(* A database-backed harvest started again against an API that serves the  *)
(* same pages on every run; arg holds the pages                            *)
(***************************************************************************)
RestartPages == { << 1 >>, << 2 >>, << 2, 1 >>, << 3 >>, << 1, 4 >> }

\* the catalogs of one or two pages
Scripts ==
    { [t |-> "script", pages |-> q] :
        q \in UNION { [1..n -> RestartPages] : n \in 1..2 } }

\* the page the API serves for a cursor: the first for "*", the second for
\* the cursor handed out with the first
ScriptIndex(cursor) == IF cursor = S("*") THEN 1 ELSE 2

ScriptPage(script, cursor) ==
    IF ScriptIndex(cursor) <= Len(script.pages)
    THEN script.pages[ScriptIndex(cursor)] ELSE << >>

\* the rest of that response: a next_cursor, a null one on the last page
ScriptNext(script, cursor) ==
    IF ScriptIndex(cursor) < Len(script.pages) THEN Meta(S("c1")) ELSE Meta(None)

RestartArgs == { [NoArgs EXCEPT !.db_handler = TRUE] }

\* every run may fetch MaxFetches times
InitRestart ==
    /\ db = EmptyDb
    /\ sink = NoFile
    /\ proc = [p \in Procs |-> [IdleProc EXCEPT !.budget = MaxFetches * MaxRuns]]
    /\ arg \in Scripts
    /\ ret = Unset

NextRestart ==
    \E p \in Procs :
       \/ \E a \in RestartArgs : RetrieveWorks(p, a)
       \/ FetchFails(p)
       \/ FetchPage(p, {ScriptPage(arg, proc[p].cursor)}, {ScriptNext(arg, proc[p].cursor)})
       \/ Finish(p)
       \/ StorePage(p)
       \/ ParseRecord(p)
       \/ EndPage(p)
       \/ CallInsert(p)
       \/ SkipRow(p)
       \/ SelectRow(p)
       \/ InsertRow(p)
       \/ CommitRow(p)

SpecRestart == InitRestart /\ [][NextRestart]_vars

(***************************************************************************)
(* A harvest into the file sink alone, with and without page cap, against  *)
(* an API that hands out distinct cursors                                  *)
(***************************************************************************)
PagingPages == { << >>, << 1 >>, << 2, 1 >> }

\* responses without meta, with a null meta, with a meta without next_cursor,
\* with a next_cursor that is null, empty, or one of two cursors
PagingCursors ==
    { EmptyDict, NullMeta, D([meta |-> EmptyDict]),
      Meta(None), Meta(S("")), Meta(S("c1")), Meta(S("c2")) }

PagingArgs ==
    { [NoArgs EXCEPT !.jsonl_filename = S("out.jsonl"), !.max_pages = m] :
        m \in { None, N(0), N(1), N(2) } }

\* the API answers one fetch more than MaxFetches, so that a run capped at
\* MaxFetches pages can be seen to stop at the cap
InitPaging ==
    /\ db = EmptyDb
    /\ sink = NoFile
    /\ proc = [p \in Procs |-> [IdleProc EXCEPT !.budget = MaxFetches + 1]]
    /\ arg = Unset
    /\ ret = Unset

NextPaging ==
    \E p \in Procs :
       \/ \E a \in PagingArgs : RetrieveWorks(p, a)
       \/ FetchFails(p)
       \/ FetchPage(p, PagingPages, PagingCursors)
       \/ Finish(p)
       \/ StorePage(p)
       \/ EndPage(p)

SpecPaging == InitPaging /\ [][NextPaging]_vars

(***************************************************************************)
(* Two processes that call insert_if_not_exists on the same store, their   *)
(* existence checks, INSERTs and COMMITs interleaved                       *)
(***************************************************************************)
RaceProcs == {1, 2}

\* candidate rows the two processes offer: the same work with two citation
\* counts, a work row without key, a source
RaceRows(t) ==
    IF t = "works"
    THEN { D([work_id |-> S("W1"), cited_by_count |-> N(1)]),
           D([work_id |-> S("W1"), cited_by_count |-> N(2)]),
           D([work_id |-> None]) }
    ELSE { D([source_id |-> S("S2")]) }

RaceTables == { "works", "primary_source" }

InitRace ==
    /\ db = EmptyDb
    /\ sink = NoFile
    /\ proc = [p \in RaceProcs |-> IdleProc]
    /\ arg = Unset
    /\ ret = Unset

NextRace ==
    \E p \in RaceProcs :
       \/ \E t \in RaceTables : \E values \in RaceRows(t) : DirectInsert(p, t, values)
       \/ SkipRow(p)
       \/ SelectRow(p)
       \/ InsertRow(p)
       \/ CommitRow(p)

SpecRace == InitRace /\ [][NextRace]_vars

(***************************************************************************)
(* Two harvest processes that store into the same database, each invoked   *)
(* once and served one page; the first also writes the file sink           *)
(***************************************************************************)
RacePages == { << 1 >>, << 2, 1 >> }

RaceHarvestArgs(p) ==
    IF p = 1
    THEN { [NoArgs EXCEPT !.db_handler = TRUE, !.jsonl_filename = S("out.jsonl")] }
    ELSE { [NoArgs EXCEPT !.db_handler = TRUE] }

InitRaceHarvest ==
    /\ db = EmptyDb
    /\ sink = NoFile
    /\ proc = [p \in RaceProcs |-> [IdleProc EXCEPT !.runs = MaxRuns - 1, !.budget = 1]]
    /\ arg = Unset
    /\ ret = Unset

NextRaceHarvest ==
    \E p \in RaceProcs :
       \/ \E a \in RaceHarvestArgs(p) : RetrieveWorks(p, a)
       \/ FetchPage(p, RacePages, { Meta(None) })
       \/ Finish(p)
       \/ StorePage(p)
       \/ ParseRecord(p)
       \/ EndPage(p)
       \/ CallInsert(p)
       \/ SkipRow(p)
       \/ SelectRow(p)
       \/ InsertRow(p)
       \/ CommitRow(p)

SpecRaceHarvest == InitRaceHarvest /\ [][NextRaceHarvest]_vars

(***************************************************************************)
(* Functions applied on their own: arg is the argument, ret the result     *)
(***************************************************************************)
Quiet ==
    /\ db = EmptyDb
    /\ sink = NoFile
    /\ proc = [p \in Procs |-> IdleProc]
    /\ ret = Unset

\* pieces identifiers are put together from
Chunks == { "/", "doi.org/", "DOI.ORG/", "https://openalex.org", "W12", "10.1234", " " }

MaxChunks == 3

RECURSIVE Join(_)
Join(q) == IF q = <<>> THEN "" ELSE Head(q) \o Join(Tail(q))

\* None, the identifiers of the documentation, and every string of at most
\* MaxChunks chunks
CleanInputs ==
    { None, S("https://openalex.org/W123456789/"), S("https://doi.org/10.1234/abc") }
    \cup { S(Join(q)) : q \in UNION { [1..n -> Chunks] : n \in 0..MaxChunks } }

InitCleanId == Quiet /\ arg \in CleanInputs

\* _clean_id(arg)
ApplyCleanId ==
    /\ ret = Unset
    /\ ret' = CleanId(arg)
    /\ UNCHANGED << db, sink, proc, arg >>

NextCleanId == ApplyCleanId

SpecCleanId == InitCleanId /\ [][NextCleanId]_vars

\* a dict with the key k, one per value, or without it
Opt(k, values) == { << >> } \cup { k :> v : v \in values }

HeadChoices ==
    { [id |-> OA("W1"), open_access |-> D([is_oa |-> B(TRUE), oa_status |-> S("gold")])],
      [id |-> OA("W1"), doi |-> S("https://doi.org/10.1/w1"), cited_by_count |-> N(1)],
      [id |-> None],
      [open_access |-> None] }

SourceChoices ==
    Opt("primary_location",
        { None, D([source |-> None]),
          D([source |-> D([id |-> OA("S1"), host_organization |-> OA("P1")])]) })

Inst(id) == D([id |-> id, ror |-> S("https://ror.org/03490as77")])

AuthorA1 == D([id |-> OA("A1"), orcid |-> S("https://orcid.org/0000-0001")])

AuthorshipLists ==
    { L(<< >>),
      L(<< D([author |-> AuthorA1, institutions |-> L(<< Inst(OA("I1")), Inst(OA("I2")) >>)]),
           D([author |-> D([id |-> OA("A2")]), institutions |-> L(<< >>)]) >>),
      L(<< D([author |-> D([id |-> OA("A2")])]),
           D([author |-> AuthorA1, institutions |-> L(<< Inst(OA("I1")), Inst(None) >>)]) >>),
      L(<< D([author |-> AuthorA1, institutions |-> L(<< Inst(OA("I1")) >>)]),
           D([author |-> AuthorA1, institutions |-> L(<< Inst(OA("I1")) >>)]) >>),
      L(<< D([institutions |-> L(<< Inst(OA("I1")) >>)]) >>),
      L(<< D([author |-> None]) >>),
      L(<< D([author |-> AuthorA1, institutions |-> None]) >>) }

\* authorships given as one object instead of a list, its keys in either order
AuthorshipDicts ==
    { Dict(<< "author", "institutions" >>, [author |-> AuthorA1, institutions |-> L(<< >>)]),
      Dict(<< "institutions", "author" >>, [author |-> AuthorA1, institutions |-> L(<< >>)]) }

AuthorshipChoices == Opt("authorships", { None } \cup AuthorshipLists \cup AuthorshipDicts)

CountsChoices ==
    Opt("counts_by_year",
        { None, L(<< >>),
          L(<< D([year |-> N(2022), cited_by_count |-> N(3)]),
               D([year |-> N(2021), cited_by_count |-> N(2)]),
               D([year |-> N(2020), cited_by_count |-> N(1)]) >>) })

Level(id) == D([id |-> S("https://openalex.org/" \o id), display_name |-> S("n")])

TopicChoices ==
    Opt("topics",
        { None, L(<< >>),
          L(<< D([id |-> OA("T1"), score |-> N(2), subfield |-> Level("subfields/11"),
                  field |-> Level("fields/1"), domain |-> Level("domains/2")]),
               D([id |-> OA("T2"), score |-> N(1)]) >>),
          L(<< D([id |-> OA("T1"), subfield |-> None]) >>),
          L(<< D([id |-> OA("T1"), field |-> Level("fields/1"), domain |-> None]) >>) })

\* the work records the parser is applied to
ParserRecords ==
    { D(h @@ src @@ au @@ cy @@ tp) :
        h \in HeadChoices, src \in SourceChoices, au \in AuthorshipChoices,
        cy \in CountsChoices, tp \in TopicChoices }

InitParser == Quiet /\ arg \in ParserRecords

\* OpenAlexWorkParser(arg).get_all_tables()
ApplyParser ==
    /\ ret = Unset
    /\ ret' = get_all_tables(arg)
    /\ UNCHANGED << db, sink, proc, arg >>

NextParser == ApplyParser

SpecParser == InitParser /\ [][NextParser]_vars

(***************************************************************************)
(* get_query_results (db_handlers.py lines 58-82)                          *)
(***************************************************************************)
\* pd.DataFrame(rows, columns=columns); pd.DataFrame() has neither
DataFrame(columns, rows) == [t |-> "DataFrame", columns |-> columns, rows |-> rows]

\* the exceptions that derive from SQLAlchemyError
SQLAlchemyErrors == { "OperationalError", "ProgrammingError" }

\* lines 70-71: engine.connect() and conn.execute(stmt) against store: the
\* exception raised, or "none"
ExecutionError(stmt, connected, store) ==
    IF ~connected THEN "OperationalError"
    ELSE IF stmt.table \notin DOMAIN store THEN "ProgrammingError"
    ELSE "none"

\* an except clause that catches nothing
CatchesNothing(e) == FALSE

\* `except SQLAlchemyError`
Catches(e) == e \in SQLAlchemyErrors

\* get_query_results(stmt, return_format) for a select of all rows of a table
get_query_results(stmt, return_format, connected, store) ==
    LET e == ExecutionError(stmt, connected, store)
        raised == IF e # "none" THEN e
                  ELSE IF return_format \in {"df", "dicts"} THEN "none"
                  ELSE "ValueError"
    IN  IF raised = "none"
        THEN IF return_format = "df"
             THEN DataFrame(ColumnList(stmt.table), store[stmt.table])
             ELSE L([i \in 1..Len(store[stmt.table]) |->
                       Dict(ColumnList(stmt.table), store[stmt.table][i])])
        ELSE IF Catches(raised)
             THEN IF return_format = "df" THEN DataFrame(<< >>, << >>) ELSE L(<< >>)
             ELSE Raise(raised)

\* a store that holds a source, a work and two yearly counts
SampleDb ==
    [EmptyDb EXCEPT
       !["primary_source"] = << StoredRow("primary_source", D([source_id |-> S("S2")])) >>,
       !["works"] = << StoredRow("works", D([work_id |-> S("W1"), primary_source_id |-> S("S2")])) >>,
       !["cited_by_year"] =
           << StoredRow("cited_by_year", D([work_id |-> S("W1"), year |-> N(2020)])),
              StoredRow("cited_by_year", D([work_id |-> S("W1"), year |-> N(2021)])) >> ]

QueryInputs ==
    [ stmt          : { [table |-> t] : t \in TableNames \cup {"nonexistent"} },
      return_format : { "df", "dicts", "json" },
      connected     : BOOLEAN ]

InitQuery ==
    /\ db \in {EmptyDb, SampleDb}
    /\ sink = NoFile
    /\ proc = [p \in Procs |-> IdleProc]
    /\ ret = Unset
    /\ arg \in QueryInputs

ApplyQuery ==
    /\ ret = Unset
    /\ ret' = get_query_results(arg.stmt, arg.return_format, arg.connected, db)
    /\ UNCHANGED << db, sink, proc, arg >>

NextQuery == ApplyQuery

SpecQuery == InitQuery /\ [][NextQuery]_vars

(***************************************************************************)
(* Properties                                                              *)
(***************************************************************************)
\* row value has a null or missing component of table t's primary key
HasNullKey(t, value) ==
    \E k \in PrimaryKeys(t) : k \notin DOMAIN value.v \/ IsNone(value.v[k])

\* the number of committed rows of table t with the primary key of value
RowsWithKey(t, value) ==
    Cardinality({ i \in 1..Len(db[t]) : \A k \in PrimaryKeys(t) : db[t][i][k] = value.v[k] })

\* every non-null foreign key of value names a committed parent row
ParentsPresent(t, value) ==
    \A fk \in ForeignKeys(t) :
       \/ fk.col \notin DOMAIN value.v
       \/ IsNone(value.v[fk.col])
       \/ \E i \in 1..Len(db[fk.ref]) : db[fk.ref][i][fk.refcol] = value.v[fk.col]

\* a direct call that repeats the call before it has ended
SecondCallEnded(r) ==
    r.caller = "direct" /\ r.repeat /\ r.pc \in {"returned", "failed"}

\* C1 as stated: after insert_if_not_exists was called twice in sequence with
\* the identical row or batch, every row of it whose primary-key components are
\* all non-null is persisted exactly once, and neither call raised a
\* duplicate-key error.
CexC1 ==
    \A p \in Procs :
       SecondCallEnded(proc[p]) =>
          /\ proc[p].exc # "UniqueViolation" /\ proc[p].prevExc # "UniqueViolation"
          /\ \A i \in 1..Len(proc[p].values) :
                ~HasNullKey(proc[p].tname, proc[p].values[i]) =>
                   RowsWithKey(proc[p].tname, proc[p].values[i]) = 1

\* C1 amended: when every row of the batch that has all primary-key components
\* also has each non-null foreign key naming a persisted parent row, two calls
\* in sequence with the identical row or batch leave exactly one persisted row
\* per primary key of the batch, and neither call raises.
ThmC1 ==
    \A p \in Procs :
       ( /\ SecondCallEnded(proc[p])
         /\ \A i \in 1..Len(proc[p].values) :
               ~HasNullKey(proc[p].tname, proc[p].values[i]) =>
                  ParentsPresent(proc[p].tname, proc[p].values[i]) )
       => /\ proc[p].pc = "returned"
          /\ proc[p].exc = "none" /\ proc[p].prevExc = "none"
          /\ \A i \in 1..Len(proc[p].values) :
                ~HasNullKey(proc[p].tname, proc[p].values[i]) =>
                   RowsWithKey(proc[p].tname, proc[p].values[i]) = 1

\* the second of two identical calls for a works row that references a source
\* has returned and the row is persisted once
WitC1 ==
    \E p \in Procs :
       /\ SecondCallEnded(proc[p]) /\ proc[p].pc = "returned"
       /\ proc[p].tname = "works"
       /\ \E i \in 1..Len(proc[p].values) :
             /\ ~HasNullKey("works", proc[p].values[i])
             /\ "primary_source_id" \in DOMAIN proc[p].values[i].v
             /\ RowsWithKey("works", proc[p].values[i]) = 1
             /\ db["works"][1].primary_source_id = S("S2")

\* C2: referential integrity holds in every reachable state of a harvest, row
\* commit by row commit: every non-null foreign key of a committed works,
\* authorships, cited_by_year or topics_by_work row names a committed row of
\* its parent table; and no insert of the harvest raises a foreign-key error.
ThmC2 ==
    /\ \A t \in TableNames : \A i \in 1..Len(db[t]) : \A fk \in ForeignKeys(t) :
          \/ IsNone(db[t][i][fk.col])
          \/ \E j \in 1..Len(db[fk.ref]) : db[fk.ref][j][fk.refcol] = db[t][i][fk.col]
    /\ \A p \in Procs : proc[p].exc # "ForeignKeyViolation"

\* a record's work, with the source it references, its authorship, yearly
\* count and topic assignment, all committed while that record is being stored
WitC2 ==
    \E p \in Procs :
       /\ proc[p].pc = "records" /\ proc[p].rec = 2
       /\ proc[p].results[1] = 1
       /\ Len(db["works"]) = 1 /\ db["works"][1].primary_source_id = S("S1")
       /\ Len(db["primary_source"]) = 1
       /\ Len(db["authorships"]) = 1 /\ Len(db["cited_by_year"]) = 1
       /\ Len(db["topics_by_work"]) = 1

\* the run ended by an exception of line 107, after the page of the response
\* was stored
FailedAtPageEnd(r) ==
    /\ r.pc = "failed" /\ r.exc = "AttributeError"
    /\ ~r.args.db_handler \/ r.rec > Len(r.results)

\* the response carries no next_cursor: no meta, a null meta, a meta without
\* next_cursor, or a null next_cursor
OmitsNextCursor(response) ==
    LET meta == Get(response, "meta", None)
    IN  IsNone(meta) \/ IsNone(Get(meta, "next_cursor", None))

\* C3: with no page cap, once the response that omits next_cursor (or gives
\* null) has been fetched and its page processed, retrieve_works returns
\* normally: the run does not end with an exception after that page.
CexC3 ==
    \A p \in Procs :
       ( /\ IsNone(proc[p].args.max_pages)
         /\ proc[p].pc = "failed"
         /\ OmitsNextCursor(proc[p].page_with_results) )
       => ~FailedAtPageEnd(proc[p])

\* C6: within one insert_if_not_exists call a candidate row with a null or
\* missing primary-key component is never inserted and never raises, and the
\* rows of the batch around it are still checked and inserted if absent: every
\* row the loop has passed that has its key is persisted.
ThmC6 ==
    /\ \A t \in TableNames : \A i \in 1..Len(db[t]) : \A k \in PrimaryKeys(t) :
          ~IsNone(db[t][i][k])
    /\ \A p \in Procs :
          /\ (proc[p].pc \in {"insert", "commit"} \/ (proc[p].pc = "failed" /\ proc[p].caller # "none"))
                => ~HasNullKey(proc[p].tname, proc[p].values[proc[p].idx])
          /\ \A i \in 1..Len(proc[p].values) :
                ( /\ \/ proc[p].pc = "returned"
                     \/ proc[p].pc \in {"select", "insert", "commit", "failed"} /\ i < proc[p].idx
                  /\ ~HasNullKey(proc[p].tname, proc[p].values[i]) )
                => RowsWithKey(proc[p].tname, proc[p].values[i]) >= 1

\* a call has returned whose batch held a row without key before a keyed row,
\* and the keyed row was inserted by this call
WitC6 ==
    \E p \in Procs :
       /\ proc[p].pc = "returned" /\ proc[p].exc = "none" /\ proc[p].wrote
       /\ Len(proc[p].values) = 2
       /\ HasNullKey(proc[p].tname, proc[p].values[1])
       /\ ~HasNullKey(proc[p].tname, proc[p].values[2])
       /\ RowsWithKey(proc[p].tname, proc[p].values[2]) = 1

\* the invocation ended in a configuration error before any fetch, and left
\* the sink file and the database as they were
RejectedUntouched(r) ==
    /\ r.pc = "failed"
    /\ r.exc \in {"ValueError", "FileExistsError"}
    /\ r.fetches = 0
    /\ ~r.wrote
    /\ sink = [exists |-> r.existed, lines |-> r.sink0]

\* C8: retrieve_works called with per_page above 200 raises a configuration
\* error before any fetch and writes nothing to the sink or the database.
ThmC8 ==
    \A p \in Procs :
       (proc[p].pc # "idle" /\ proc[p].args.per_page > 200) => RejectedUntouched(proc[p])

\* an invocation whose only fault is per_page = 201 was rejected
WitC8 ==
    \E p \in Procs :
       /\ proc[p].pc = "failed" /\ proc[p].exc = "ValueError"
       /\ proc[p].args.per_page = 201
       /\ proc[p].args.db_handler /\ IsNone(proc[p].args.jsonl_filename)
       /\ IsNone(proc[p].args.start_year) /\ IsNone(proc[p].args.end_year)

\* C9: retrieve_works called with a sink path at which a file exists raises a
\* configuration error, performs no fetch and leaves the file's content as
\* it was.
ThmC9 ==
    \A p \in Procs :
       (proc[p].pc # "idle" /\ proc[p].args.jsonl_filename = S("out.jsonl") /\ proc[p].existed)
       => /\ RejectedUntouched(proc[p])
          /\ proc[p].exc = "FileExistsError"
          /\ sink = OldFile

\* an invocation with a database handler and otherwise valid arguments was
\* rejected because the sink file existed
WitC9 ==
    \E p \in Procs :
       /\ proc[p].pc = "failed" /\ proc[p].exc = "FileExistsError"
       /\ proc[p].args.db_handler /\ proc[p].args.per_page = 200
       /\ IsNone(proc[p].args.start_year) /\ IsNone(proc[p].args.end_year)
       /\ sink = OldFile

\* C10: an invocation with neither sink nor database handler, or with a lower
\* year bound above the upper bound, or with either bound above the current
\* year, raises a configuration error before the first fetch and writes
\* nothing.
CexC10 ==
    \A p \in Procs :
       LET a == proc[p].args
       IN  ( /\ proc[p].pc # "idle"
             /\ \/ ~Truthy(a.jsonl_filename) /\ ~a.db_handler
                \/ ~IsNone(a.start_year) /\ ~IsNone(a.end_year) /\ a.start_year.n > a.end_year.n
                \/ ~IsNone(a.start_year) /\ a.start_year.n > CurrentYear
                \/ ~IsNone(a.end_year) /\ a.end_year.n > CurrentYear )
           => RejectedUntouched(proc[p])

\* what remains of s after its trailing slashes are removed
Stripped(s) ==
    LET n == CHOOSE n \in 0..Len(s) :
                /\ n = 0 \/ CharAt(s, n) # "/"
                /\ \A m \in (n + 1)..Len(s) : CharAt(s, m) = "/"
    IN  SubSeq(s, 1, n)

EndsWith(s, suffix) ==
    Len(suffix) <= Len(s) /\ SubSeq(s, Len(s) - Len(suffix) + 1, Len(s)) = suffix

HasSub(s, sub) ==
    \E i \in 1..(Len(s) - Len(sub) + 1) : SubSeq(s, i, i + Len(sub) - 1) = sub

\* C4: _clean_id maps "https://openalex.org/W123456789/" to "W123456789",
\* "https://doi.org/10.1234/abc" to "10.1234/abc" and None to None; in general
\* it maps a non-empty identifier without the doi.org/ marker (in any case) to
\* the segment after the last slash of the identifier without its trailing
\* slashes, and an identifier with the marker to everything after the marker,
\* inner slashes included.
ThmC4 ==
    ret # Unset =>
       /\ arg = S("https://openalex.org/W123456789/") => ret = S("W123456789")
       /\ arg = S("https://doi.org/10.1234/abc") => ret = S("10.1234/abc")
       /\ arg = None => ret = None
       /\ (arg.t = "str" /\ arg.v # "") =>
             /\ ret.t = "str"
             /\ EndsWith(Stripped(arg.v), ret.v)
             /\ ~HasSub(Lower(Stripped(arg.v)), DoiMarker) =>
                   /\ ~HasSub(ret.v, "/")
                   /\ \/ ret.v = Stripped(arg.v)
                      \/ EndsWith(Stripped(arg.v), "/" \o ret.v)
             /\ HasSub(Stripped(arg.v), DoiMarker) =>
                   /\ ~HasSub(ret.v, DoiMarker)
                   /\ EndsWith(Stripped(arg.v), DoiMarker \o ret.v)

\* the DOI URL of the documentation has been normalised, its inner slash kept
WitC4 == arg = S("https://doi.org/10.1234/abc") /\ ret = S("10.1234/abc")

\* the sub-object under key k of dict d is absent: the key is missing or its
\* value is null
Absent(d, k) == k \notin DOMAIN d.v \/ IsNone(d.v[k])

\* the parser returned its tables
Parsed == ret # Unset /\ ~IsRaise(ret)

\* the number of candidate rows the parser returned for table t
RowCount(t) == Len(AsList(TablesGet(ret, t)))

\* the length of the list under key k of the record, 0 when the key is absent
ListLen(record, k) == IF k \in DOMAIN record.v THEN Len(record.v[k].v) ELSE 0

RECURSIVE SumInstitutions(_)
SumInstitutions(authorships) ==
    IF authorships = << >> THEN 0
    ELSE ListLen(Head(authorships), "institutions") + SumInstitutions(Tail(authorships))

\* the record has no source: primary_location or its source is missing or null
SourceAbsent(record) ==
    \/ "primary_location" \notin DOMAIN record.v
    \/ IsNone(record.v["primary_location"])
    \/ "source" \notin DOMAIN record.v["primary_location"].v
    \/ IsNone(record.v["primary_location"].v["source"])

\* the row counts C5 states for every table but primary_source
CountsButSource ==
    /\ RowCount("works") = 1
    /\ RowCount("authorships") = ListLen(arg, "authorships")
    /\ RowCount("authors") = ListLen(arg, "authorships")
    /\ RowCount("institutions") =
          (IF "authorships" \in DOMAIN arg.v THEN SumInstitutions(arg.v["authorships"].v) ELSE 0)
    /\ RowCount("cited_by_year") = ListLen(arg, "counts_by_year")
    /\ RowCount("topics_by_work") = ListLen(arg, "topics")
    /\ RowCount("topics") = ListLen(arg, "topics")

\* C5: for any work record get_all_tables returns one Work row, one Source
\* row or none if the source is absent, one Authorship and one Author row per
\* authorship, one Institution row per nested institution, one CitedByYear
\* row per yearly count, one TopicByWork and one Topic row per topic.
CexC5 ==
    ( /\ ret # Unset
      /\ Absent(arg, "authorships") \/ arg.v["authorships"].t = "list" )
    => /\ ~IsRaise(ret)
       /\ CountsButSource
       /\ RowCount("primary_source") = (IF SourceAbsent(arg) THEN 0 ELSE 1)

\* connect or execute failed for the query in arg
QueryFailed == ~arg.connected \/ arg.stmt.table \notin TableNames

EmptyResult ==
    IF arg.return_format = "df" THEN ret = DataFrame(<< >>, << >>) ELSE ret = L(<< >>)

\* C7 as stated: get_query_results never propagates a failure to its caller,
\* and on any execution failure it returns an empty result set.
CexC7 ==
    ret # Unset => /\ ~IsRaise(ret)
                   /\ QueryFailed => EmptyResult

\* C7 amended: on any execution failure get_query_results returns an empty
\* result set (an empty DataFrame for 'df', an empty list otherwise) and raises
\* nothing; with return_format 'df' or 'dicts' it never raises; the one
\* exception it lets through is the ValueError for another return_format
\* after a successful execution.
ThmC7 ==
    ret # Unset =>
       /\ QueryFailed => EmptyResult
       /\ arg.return_format \in {"df", "dicts"} => ~IsRaise(ret)
       /\ IsRaise(ret) => ret.exc = "ValueError" /\ ~QueryFailed

\* a query of a table that does not exist returned an empty DataFrame
WitC7 ==
    /\ arg.stmt.table = "nonexistent" /\ arg.connected /\ arg.return_format = "df"
    /\ ret = DataFrame(<< >>, << >>)

\* no table holds two rows with the same primary key
UniqueKeys ==
    \A t \in TableNames : \A i, j \in 1..Len(db[t]) :
       i # j => \E k \in PrimaryKeys(t) : db[t][i][k] # db[t][j][k]

\* rows value and other have the same, fully given, primary key of table t
SameKey(t, value, other) ==
    /\ ~HasNullKey(t, value) /\ ~HasNullKey(t, other)
    /\ \A k \in PrimaryKeys(t) : value.v[k] = other.v[k]

\* C11 as stated: after any sequence of insert_if_not_exists calls by a single
\* process every table holds at most one row per primary key and no call
\* raises.
CexC11 ==
    /\ UniqueKeys
    /\ \A p \in Procs : proc[p].exc = "none"

\* whenever a table changes, one candidate row was appended to it: the row at
\* hand of a running call, whose key no stored row had and which is the first
\* candidate of its batch with that key; the rows stored before stay as they
\* were
FirstCandidatePersisted ==
    \A t \in TableNames :
       db'[t] # db[t] =>
          \E p \in Procs :
             /\ proc[p].tname = t /\ proc[p].pc = "commit"
             /\ db'[t] = Append(db[t], StoredRow(t, proc[p].values[proc[p].idx]))
             /\ RowsWithKey(t, proc[p].values[proc[p].idx]) = 0
             /\ \A j \in 1..(proc[p].idx - 1) :
                   ~SameKey(t, proc[p].values[j], proc[p].values[proc[p].idx])

\* C11 amended: after any sequence of insert_if_not_exists calls by a single
\* process (any tables, any batches, also batches with several candidates of
\* one primary key) every table holds at most one row per primary key, the
\* first candidate with a given key is the one persisted and stays as it is,
\* and no call raises a duplicate-key error; the one error a call raises is the
\* foreign-key violation for a candidate whose parent row is not persisted.
ThmC11 ==
    /\ [](/\ UniqueKeys
          /\ \A p \in Procs :
                /\ proc[p].exc \in {"none", "ForeignKeyViolation"}
                /\ proc[p].exc = "ForeignKeyViolation" =>
                      ~ParentsPresent(proc[p].tname, proc[p].values[proc[p].idx]))
    /\ [][FirstCandidatePersisted]_vars

\* a call with a batch of two different candidates of one key has returned:
\* it inserted the first and the table holds that one row
WitC11 ==
    \E p \in Procs :
       /\ proc[p].pc = "returned" /\ proc[p].wrote
       /\ Len(proc[p].values) = 2
       /\ proc[p].values[1] # proc[p].values[2]
       /\ SameKey(proc[p].tname, proc[p].values[1], proc[p].values[2])
       /\ db[proc[p].tname] = << StoredRow(proc[p].tname, proc[p].values[1]) >>

\* C12: constructing the parser and calling get_all_tables never raises on a
\* record whose nested sub-objects are absent, whether the key is missing or
\* present with a null value; the fields derived from the absent sub-object
\* are null and the row lists derived from an absent list are empty.
CexC12 ==
    ret # Unset =>
       /\ Absent(arg, "authorships") \/ arg.v["authorships"].t = "list" => ~IsRaise(ret)
       /\ SourceAbsent(arg) =>
             \A k \in DOMAIN TablesGet(ret, "primary_source").v :
                ~Truthy(TablesGet(ret, "primary_source").v[k])
       /\ Absent(arg, "open_access") =>
             /\ IsNone(TablesGet(ret, "works").v["is_oa"])
             /\ IsNone(TablesGet(ret, "works").v["oa_status"])
       /\ Absent(arg, "authorships") =>
             /\ RowCount("authorships") = 0 /\ RowCount("authors") = 0
             /\ RowCount("institutions") = 0
       /\ Absent(arg, "counts_by_year") => RowCount("cited_by_year") = 0
       /\ Absent(arg, "topics") =>
             RowCount("topics") = 0 /\ RowCount("topics_by_work") = 0

\* the invocation of r met a fetch with a non-success status
FetchFailed(r) == r.exc = "Exception"

\* the step of a failed fetch writes nothing, and after it the process takes
\* no step of that invocation: its next step, if any, is a new invocation,
\* which by itself leaves the database and the sink as they are
AbortIsFinal ==
    \A p \in Procs :
       /\ (~FetchFailed(proc[p]) /\ FetchFailed(proc'[p])) =>
             /\ db' = db /\ sink' = sink
             /\ proc'[p].fetches = proc[p].fetches + 1
             /\ proc'[p].count = proc[p].count
       /\ FetchFailed(proc[p]) =>
             \/ proc'[p] = proc[p]
             \/ /\ proc'[p].runs = proc[p].runs + 1
                /\ proc'[p].fetches = 0
                /\ db' = db /\ sink' = sink

\* C13: when a fetch returns a non-success status retrieve_works aborts with a
\* fatal error: the failed cursor is not fetched again, no later page is
\* fetched, nothing of the failed page is written, and every row and sink line
\* persisted from earlier pages stays in place.
ThmC13 ==
    /\ [](\A p \in Procs : FetchFailed(proc[p]) => proc[p].pc = "failed")
    /\ [][AbortIsFinal]_vars

\* the second fetch of a run failed after the first page was written to the
\* sink and to the database
WitC13 ==
    \E p \in Procs :
       /\ FetchFailed(proc[p]) /\ proc[p].pc = "failed"
       /\ proc[p].fetches = 2 /\ proc[p].count = 1
       /\ Len(db["works"]) = 1
       /\ Len(sink.lines) > Len(proc[p].sink0)

\* s is empty or made of spaces and slashes only
Blank(s) == \A i \in 1..Len(s) : CharAt(s, i) \in {" ", "/"}

\* C14: _clean_id does not throw on empty, whitespace-only or malformed
\* identifier input (such as a string made only of slashes) and returns the
\* null marker for each of them.
CexC14 ==
    (ret # Unset /\ arg.t = "str" /\ Blank(arg.v)) => ret = None

\* position i of s starts the marker 'doi.org/' written in any letter case
MarkerAt(s, i) ==
    /\ i >= 1 /\ i + Len(DoiMarker) - 1 <= Len(s)
    /\ Lower(SubSeq(s, i, i + Len(DoiMarker) - 1)) = DoiMarker

\* C15: for an identifier that holds the marker 'doi.org/' in any letter case
\* _clean_id returns everything after that marker; for any other non-empty
\* identifier it returns the substring after the last '/' (trailing slashes
\* set aside in both cases).
CexC15 ==
    (ret # Unset /\ arg.t = "str" /\ arg.v # "") =>
       /\ ret.t = "str"
       /\ IF \E i \in 1..Len(Stripped(arg.v)) : MarkerAt(Stripped(arg.v), i)
          THEN \E i \in 1..Len(Stripped(arg.v)) :
                  /\ MarkerAt(Stripped(arg.v), i)
                  /\ ret.v = SubSeq(Stripped(arg.v), i + Len(DoiMarker), Len(Stripped(arg.v)))
          ELSE /\ ~HasSub(ret.v, "/")
               /\ ret.v = Stripped(arg.v) \/ EndsWith(Stripped(arg.v), "/" \o ret.v)

\* the keys of the parser's result in their iteration order
KeyOrder == [i \in 1..Len(ret.v) |-> ret.v[i].k]

\* the position of table t in insert_order, 0 when it is not in it
OrderIndex(t) ==
    IF \E i \in 1..Len(insert_order) : insert_order[i] = t
    THEN CHOOSE i \in 1..Len(insert_order) : insert_order[i] = t
    ELSE 0

\* the tables some foreign key refers to, and the tables that declare one
FkTargets == { fk.ref : fk \in UNION { ForeignKeys(t) : t \in TableNames } }

FkDeclarers == { t \in TableNames : ForeignKeys(t) # {} }

\* C16: the table names returned by get_all_tables, in iteration order, are
\* exactly insert_order (primary_source, authors, institutions, topics, works,
\* authorships, cited_by_year, topics_by_work); every name of insert_order is
\* a key of the parser's result and a table of the handler; and in that order
\* the target of every foreign key precedes the table that declares it, as
\* does every target precede every other declaring table.
ThmC16 ==
    /\ Parsed => KeyOrder = insert_order
    /\ insert_order = << "primary_source", "authors", "institutions", "topics",
                         "works", "authorships", "cited_by_year", "topics_by_work" >>
    /\ { insert_order[i] : i \in 1..Len(insert_order) } = TableNames
    /\ Len(insert_order) = Cardinality(TableNames)
    /\ \A t \in TableNames : \A fk \in ForeignKeys(t) :
          OrderIndex(fk.ref) >= 1 /\ OrderIndex(fk.ref) < OrderIndex(t)
    /\ \A target \in FkTargets : \A t \in FkDeclarers :
          target # t => OrderIndex(target) < OrderIndex(t)

\* the parser returned the tables of a record with a source, two authorships
\* and two topics, its keys in insertion order
WitC16 ==
    /\ Parsed /\ KeyOrder = insert_order
    /\ ~SourceAbsent(arg)
    /\ RowCount("authorships") = 2 /\ RowCount("topics") = 2
    /\ RowCount("cited_by_year") = 3

\* the columns that hold identifiers
IdColumns ==
    { "work_id", "doi", "primary_source_id", "source_id", "host_organization_id",
      "author_id", "orcid", "institution_id", "ror", "topic_id", "subfield_id",
      "field_id", "domain_id" }

\* stored value x is not a raw provider URL, nor a list that holds one
Normalized(x) ==
    CASE x.t = "str"  -> ~HasSub(x.v, "://")
      [] x.t = "list" -> \A i \in 1..Len(x.v) : x.v[i].t = "str" => ~HasSub(x.v[i].v, "://")
      [] OTHER        -> TRUE

\* C17: every identifier value persisted by a harvest is in normalized,
\* prefix-stripped form: no stored identifier is a raw provider URL, whatever
\* URLs the API records contained.
CexC17 ==
    \A t \in TableNames : \A i \in 1..Len(db[t]) :
       \A c \in DOMAIN db[t][i] \cap IdColumns : Normalized(db[t][i][c])

\* value would be inserted into table t of store: it has every key component
\* and no row of the table has its key
IsNew(store, t, value) ==
    /\ \A k \in PrimaryKeys(t) : k \in DOMAIN value.v /\ ~IsNone(value.v[k])
    /\ ~\E i \in 1..Len(store[t]) : \A k \in PrimaryKeys(t) : store[t][i][k] = value.v[k]

\* the candidate rows of one parsed record in the order they are offered to
\* insert_if_not_exists: table by table from position i of insert_order on
RECURSIVE CandidatesOfRecord(_, _)
CandidatesOfRecord(tables, i) ==
    IF i > Len(insert_order) THEN << >>
    ELSE [j \in 1..Len(AsList(TablesGet(tables, insert_order[i]))) |->
            [table |-> insert_order[i],
             value |-> AsList(TablesGet(tables, insert_order[i]))[j]]]
         \o CandidatesOfRecord(tables, i + 1)

RECURSIVE CandidatesOfPage(_)
CandidatesOfPage(page) ==
    IF page = << >> THEN << >>
    ELSE CandidatesOfRecord(ParsedPool[Head(page)], 1) \o CandidatesOfPage(Tail(page))

RECURSIVE CandidatesOfPages(_)
CandidatesOfPages(pages) ==
    IF pages = << >> THEN << >>
    ELSE CandidatesOfPage(Head(pages)) \o CandidatesOfPages(Tail(pages))

\* insert-if-absent as a function on stores, candidate by candidate: a row
\* without key or with a stored key is passed over, a new row is appended,
\* and at a row the store rejects the INSERT raises, which leaves the store
\* as it is and the candidates after it unattempted
RECURSIVE UpsertAll(_, _)
UpsertAll(store, candidates) ==
    IF candidates = << >> THEN store
    ELSE IF ~IsNew(store, Head(candidates).table, Head(candidates).value)
         THEN UpsertAll(store, Tail(candidates))
         ELSE IF InsertVerdict(store, Head(candidates).table, Head(candidates).value) # "ok"
              THEN store
              ELSE UpsertAll([store EXCEPT ![Head(candidates).table] =
                                 Append(@, StoredRow(Head(candidates).table,
                                                     Head(candidates).value))],
                             Tail(candidates))

\* the database a single complete run over the pages of the script leaves
SingleRun(script) == UpsertAll(EmptyDb, CandidatesOfPages(script.pages))

\* the errors an INSERT or the existence check can end a call with
InsertErrors ==
    { "CompileError", "NotNullViolation", "UniqueViolation", "ForeignKeyViolation",
      "KeyError" }

\* C18: restarting a database-backed harvest from the beginning never corrupts
\* state: a run of retrieve_works that completes, the first or one after a
\* complete or aborted run over the same API pages, leaves the database equal
\* to what a single complete run produces, and no run meets an insert error.
ThmC18 ==
    \A p \in Procs :
       /\ proc[p].exc \notin InsertErrors
       /\ proc[p].pc = "done" => db = SingleRun(arg)

\* a second run has completed over two pages after the first run was aborted
\* by a failed fetch of the second page, with the first page already stored
WitC18 ==
    \E p \in Procs :
       /\ proc[p].pc = "done" /\ proc[p].runs = 2
       /\ proc[p].prevExc = "Exception"
       /\ proc[p].fetches = 2 /\ proc[p].total = 4
       /\ Len(db["works"]) = 1 /\ Len(db["cited_by_year"]) = 2
       /\ db = SingleRun(arg)

\* processes p and q are both past the existence check with a candidate of
\* the same table and primary key
SameKeyAtHand(p, q) ==
    /\ proc[p].tname = proc[q].tname
    /\ SameKey(proc[p].tname, proc[p].values[proc[p].idx], proc[q].values[proc[q].idx])

\* C19: when two processes run insert_if_not_exists concurrently for the same
\* primary key, interleaved at the granularity of existence check, insert and
\* commit, the store never holds two rows with that key: at most one of them
\* holds an accepted, uncommitted insert of the key at a time, and an insert
\* made after the other's commit is rejected by the primary-key constraint
\* with exactly one row of the key stored.
ThmC19 ==
    /\ \A t \in TableNames : \A i, j \in 1..Len(db[t]) :
          i # j => \E k \in PrimaryKeys(t) : db[t][i][k] # db[t][j][k]
    /\ \A p, q \in DOMAIN proc :
          (p # q /\ proc[p].pc = "commit" /\ proc[q].pc = "commit") => ~SameKeyAtHand(p, q)
    /\ \A p \in DOMAIN proc :
          /\ proc[p].exc = "UniqueViolation" =>
                RowsWithKey(proc[p].tname, proc[p].values[proc[p].idx]) = 1
          /\ proc[p].pc = "commit" =>
                RowsWithKey(proc[p].tname, proc[p].values[proc[p].idx]) = 0

\* both processes saw the key as absent; one inserted and committed its row,
\* the other's insert was rejected by the primary-key constraint
WitC19 ==
    \E p, q \in DOMAIN proc :
       /\ p # q
       /\ proc[p].pc = "failed" /\ proc[p].exc = "UniqueViolation"
       /\ proc[q].pc = "returned" /\ proc[q].wrote
       /\ SameKeyAtHand(p, q)
       /\ proc[p].values[proc[p].idx] # proc[q].values[proc[q].idx]
       /\ db[proc[q].tname] = << StoredRow(proc[q].tname, proc[q].values[proc[q].idx]) >>

\* sequence q begins with sequence r
IsPrefix(r, q) == Len(r) <= Len(q) /\ SubSeq(q, 1, Len(r)) = r

\* every table keeps the rows it holds, unchanged and in place, and at most
\* gains rows behind them
RowsOnlyAdded == \A t \in TableNames : IsPrefix(db[t], db'[t])

\* C20: the core never updates or deletes a row: across any harvest the
\* persisted rows only grow, and a candidate whose primary key is already
\* stored, whatever its other attributes (a newer cited_by_count on
\* re-ingestion), leaves the stored row as it is.
ThmC20 ==
    /\ [][RowsOnlyAdded]_vars
    /\ [](\A p \in Procs :
             (proc[p].pc \in {"insert", "commit"}) =>
                RowsWithKey(proc[p].tname, proc[p].values[proc[p].idx]) = 0)

\* the work stored with citation count 2 was offered again with citation
\* count 1, and the harvester has gone past the works table of that record
\* leaving the stored row as it was
WitC20 ==
    \E p \in Procs :
       /\ proc[p].pc = "tables" /\ proc[p].ti = 6
       /\ proc[p].results = << 2, 1 >> /\ proc[p].rec = 2
       /\ TablesGet(ParsedPool[1], "works").v["cited_by_count"] = N(1)
       /\ Len(db["works"]) = 1
       /\ db["works"][1]["work_id"] = S("W1")
       /\ db["works"][1]["cited_by_count"] = N(2)

(***************************************************************************)
(* The order of fetches, sink writes and insert_if_not_exists calls        *)
(***************************************************************************)
\* the n-th insert_if_not_exists call the harvester owes a page: record by
\* record, and for each record table by table in the declared order
OwedCall(page, n) ==
    LET i == ((n - 1) \div Len(insert_order)) + 1
        j == ((n - 1) % Len(insert_order)) + 1
    IN  [ rec    |-> i,
          t      |-> insert_order[j],
          values |-> TablesGet(ParsedPool[page[i]], insert_order[j]) ]

\* the process issues a fetch in this step
Fetches(p) == Len(proc'[p].asked) = Len(proc[p].asked) + 1

\* the process calls insert_if_not_exists for the harvest in this step
Calls(p) == Len(proc'[p].calls) = Len(proc[p].calls) + 1

\* the page fetched last is stored completely
PageStored(p) ==
    /\ Truthy(proc[p].args.jsonl_filename) =>
          /\ Len(sink.lines) >= Len(proc[p].page)
          /\ SubSeq(sink.lines, Len(sink.lines) - Len(proc[p].page) + 1, Len(sink.lines))
                = proc[p].page
    /\ proc[p].args.db_handler =>
          Len(proc[p].calls) = Len(insert_order) * Len(proc[p].page)

SequentialStep ==
    \A p \in Procs :
       /\ Fetches(p) /\ proc[p].count >= 1 => PageStored(p)
       /\ Calls(p) => proc[p].tname = "none" /\ proc[p].idx = 0

\* C21: the harvest is strictly sequential: a fetch after the first is issued
\* only when every record of the page before it is in the sink (if one is
\* configured) and insert_if_not_exists has been called for each of its
\* records once per table of insert_order, in that order, with that record's
\* rows; and a call is made only when the call before it has returned.
ThmC21 ==
    /\ [](\A p \in Procs : \A n \in 1..Len(proc[p].calls) :
             proc[p].calls[n] = OwedCall(proc[p].page, n))
    /\ [][SequentialStep]_vars

\* a run with sink and database about to fetch again after a page of two
\* records: both lines written, sixteen calls made
WitC21 ==
    \E p \in Procs :
       /\ proc[p].pc = "loop" /\ proc[p].count = 1 /\ Truthy(proc[p].cursor)
       /\ IsNone(proc[p].args.max_pages)
       /\ proc[p].args.db_handler /\ Truthy(proc[p].args.jsonl_filename)
       /\ proc[p].page = << 2, 1 >> /\ sink.lines = << 2, 1 >>
       /\ Len(proc[p].calls) = 16

\* C22: with a page cap M, retrieve_works issues at most M fetches and stops
\* cleanly the first time next_cursor is absent, even if the cap has not been
\* reached: the run does not end with an exception after the page of a
\* response that omits next_cursor.
CexC22 ==
    \A p \in Procs :
       ~IsNone(proc[p].args.max_pages) =>
          /\ Len(proc[p].asked) <= proc[p].args.max_pages.n
          /\ ( proc[p].pc = "failed" /\ OmitsNextCursor(proc[p].page_with_results) )
                 => ~FailedAtPageEnd(proc[p])

\* no value occurs twice in the sequence
Distinct(q) == \A i, j \in 1..Len(q) : q[i] = q[j] => i = j

\* C23 as stated: the first fetch uses the cursor "*", every later fetch the
\* next_cursor of the response just before it, and no cursor is fetched twice
\* within one run.
CexC23 ==
    \A p \in Procs :
       /\ \A i \in 1..Len(proc[p].asked) :
             proc[p].asked[i] = IF i = 1 THEN S("*") ELSE proc[p].given[i - 1]
       /\ Distinct(proc[p].asked)

\* C23 amended: the first fetch of every retrieve_works invocation uses the
\* cursor "*" and every later fetch uses the next_cursor of the response just
\* before it; each response's next_cursor is used for at most one fetch and
\* none is passed over; a cursor is fetched twice within one run only when
\* the API itself handed out that cursor twice, or handed out "*".
ThmC23 ==
    \A p \in Procs :
       /\ Len(proc[p].asked) <= Len(proc[p].given) + 1
       /\ \A i \in 1..Len(proc[p].asked) :
             proc[p].asked[i] = IF i = 1 THEN S("*") ELSE proc[p].given[i - 1]
       /\ \A i, j \in 1..Len(proc[p].asked) :
             i < j /\ proc[p].asked[i] = proc[p].asked[j] =>
                IF i = 1 THEN proc[p].given[j - 1] = S("*")
                ELSE proc[p].given[i - 1] = proc[p].given[j - 1]

\* a run whose third fetch used the second cursor the API handed out
WitC23 ==
    \E p \in Procs :
       /\ proc[p].asked = << S("*"), S("c1"), S("c2") >>
       /\ proc[p].pc = "store"

\* the run of the process writes to the sink: a path was given and no file
\* was there when retrieve_works was invoked
SinkRun(r) == r.runs >= 1 /\ Truthy(r.args.jsonl_filename) /\ ~r.existed

\* the records of the pages fetched before the one fetched last
SeenBefore(r) == SubSeq(r.seen, 1, Len(r.seen) - Len(r.page))

\* C24: in a run with a file sink, after each page has been processed the
\* sink holds exactly one line per record of all pages fetched so far, in
\* fetch order and within-page order; while page k is being fetched it holds
\* the lines of pages 1..k-1, lines once written stay, and a run that fails
\* while fetching or processing page k has lost at most page k's records.
ThmC24 ==
    /\ [](\A p \in Procs :
            SinkRun(proc[p]) =>
               /\ proc[p].pc = "store" => sink.lines = SeenBefore(proc[p])
               /\ proc[p].pc # "store" => sink.lines = proc[p].seen
               /\ proc[p].pc = "failed" => IsPrefix(SeenBefore(proc[p]), sink.lines))
    /\ [][IsPrefix(sink.lines, sink'.lines)]_vars

\* a run with sink whose second fetch failed after a first page of two
\* records: both lines are in the sink, in page order
WitC24 ==
    \E p \in Procs :
       /\ SinkRun(proc[p]) /\ proc[p].pc = "failed" /\ proc[p].exc = "Exception"
       /\ proc[p].count = 1 /\ Len(proc[p].asked) = 2
       /\ sink.lines = << 2, 1 >>

\* the year fragment the filter is to carry for the bounds given
YearFragment(a) ==
    IF ~IsNone(a.start_year) /\ ~IsNone(a.end_year)
    THEN ",publication_year:" \o ToString(a.start_year.n) \o "-" \o ToString(a.end_year.n)
    ELSE IF ~IsNone(a.start_year)
         THEN ",publication_year:>=" \o ToString(a.start_year.n)
         ELSE IF ~IsNone(a.end_year)
              THEN ",publication_year:<=" \o ToString(a.end_year.n)
              ELSE ""

\* C25: the filter of every run that has reached the fetch loop is the institution
\* predicate followed, after a comma, by the publication-year fragment of its
\* case: start-end for both bounds, >=start for a lower bound only, <=end for
\* an upper bound only, nothing for no bound.
CexC25 ==
    \A p \in Procs :
       proc[p].pc = "loop" =>
          proc[p].filters = "institutions.ror:03490as77" \o YearFragment(proc[p].args)

\* retrieve_works is invoked in this step
Invoked(p) == proc'[p].runs = proc[p].runs + 1

\* the run of the process, with a file sink, has ended after processing at
\* least one page
SinkRunEnded(r) == SinkRun(r) /\ r.pc \in {"done", "failed"} /\ r.count >= 1

RestartOnSameSink ==
    \A p \in Procs :
       /\ Invoked(p) /\ SinkRunEnded(proc[p]) /\ Truthy(proc'[p].args.jsonl_filename) =>
             proc'[p].pc = "failed" /\ proc'[p].exc = "FileExistsError"
       /\ proc[p].exc = "FileExistsError" /\ ~Invoked(p) =>
             db' = db /\ sink' = sink

\* C26: once a run with a file sink has processed at least one page, whether
\* it finished or aborted on a transport error, retrieve_works invoked again
\* with the sink path raises FileExistsError; that invocation issues no
\* fetch, writes nothing to the sink and commits no row.
ThmC26 ==
    /\ [][RestartOnSameSink]_vars
    /\ [](\A p \in Procs :
            proc[p].exc = "FileExistsError" =>
               /\ proc[p].pc = "failed"
               /\ proc[p].asked = << >> /\ proc[p].committed = << >>
               /\ sink.lines = proc[p].sink0)

\* the restart of a run with sink and database that had aborted on a
\* transport error after its first page: refused, nothing fetched
WitC26 ==
    \E p \in Procs :
       /\ proc[p].exc = "FileExistsError" /\ proc[p].prevExc = "Exception"
       /\ proc[p].runs = 2 /\ proc[p].args.db_handler
       /\ sink.lines = << 2, 1 >> /\ Len(db["works"]) = 1

\* the process leaves its INSERT in this step
Inserts(p) == proc[p].pc = "insert" /\ proc'[p].pc # "insert"

\* the key of the candidate row at hand is committed
KeyTaken(p) == RowsWithKey(proc[p].tname, proc[p].values[proc[p].idx]) >= 1

ViolationPropagates ==
    \A p \in RaceProcs :
       /\ Inserts(p) /\ KeyTaken(p) =>
             /\ proc'[p].pc = "failed" /\ proc'[p].exc = "UniqueViolation"
             /\ db' = db
       /\ proc[p].pc = "failed" => proc'[p] = proc[p]

\* C27: insert_if_not_exists does not absorb a uniqueness violation: when a
\* process has passed the existence check for a key and another process has
\* committed that key before its INSERT, the INSERT's constraint error leaves
\* insert_if_not_exists and ends that process's harvest, which attempts no
\* further row; every row the process committed before stays in the store.
ThmC27 ==
    /\ [][ViolationPropagates]_vars
    /\ [](\A p \in RaceProcs :
            /\ \A n \in 1..Len(proc[p].committed) :
                  \E i \in 1..Len(db[proc[p].committed[n].t]) :
                     db[proc[p].committed[n].t][i] = proc[p].committed[n].row
            /\ proc[p].exc = "UniqueViolation" =>
                  /\ proc[p].pc = "failed"
                  /\ \A n \in 1..Len(proc[p].committed) :
                        proc[p].committed[n].row #
                           StoredRow(proc[p].tname, proc[p].values[proc[p].idx]))

\* a harvest ended by the uniqueness violation on a source row the other
\* process committed first, after it had committed rows of its own and with
\* tables of the record still to come
WitC27 ==
    \E p \in RaceProcs :
       /\ proc[p].pc = "failed" /\ proc[p].exc = "UniqueViolation"
       /\ proc[p].caller = "harvest" /\ proc[p].tname = "primary_source"
       /\ proc[p].committed # << >>
       /\ proc[p].ti < Len(insert_order)
       /\ Len(db["authorships"]) = 0

\* the nested institutions of the k-th authorship of a pool record
NestedInstitutions(line, k) ==
    Get(Get(Pool[line], "authorships", L(<< >>)).v[k], "institutions", L(<< >>)).v

\* C28: in every reachable state of a harvest every non-null element of a
\* persisted authorships row's institution_id list is the key of a row of the
\* institutions table; the list handed to insert_if_not_exists (seen at the
\* call made last) has one element per nested institution, null exactly for
\* those without id, and no institutions row has a null key.
ThmC28 ==
    /\ \A i \in 1..Len(db["authorships"]) :
          \A n \in 1..Len(db["authorships"][i].institution_id.v) :
             \/ IsNone(db["authorships"][i].institution_id.v[n])
             \/ \E j \in 1..Len(db["institutions"]) :
                   db["institutions"][j].institution_id =
                      db["authorships"][i].institution_id.v[n]
    /\ \A j \in 1..Len(db["institutions"]) : ~IsNone(db["institutions"][j].institution_id)
    /\ \A p \in Procs : \A c \in { Len(proc[p].calls) } \ { 0 } :
          proc[p].calls[c].t = "authorships" =>
             \A k \in 1..Len(proc[p].calls[c].values.v) :
                LET list   == proc[p].calls[c].values.v[k].v.institution_id.v
                    nested == NestedInstitutions(proc[p].page[proc[p].calls[c].rec], k)
                IN  /\ Len(list) = Len(nested)
                    /\ \A n \in 1..Len(list) :
                          IsNone(list[n]) <=> Absent(nested[n], "id")

\* a persisted authorships row whose list names a stored institution and has
\* a null element for the institution without id; one institutions row
WitC28 ==
    /\ Len(db["authorships"]) = 1
    /\ db["authorships"][1].institution_id = L(<< S("I1"), None >>)
    /\ Len(db["institutions"]) = 1
    /\ db["institutions"][1].institution_id = S("I1")

\* the run of the process stores into the file sink and the database
BothConfigured(r) ==
    r.runs >= 1 /\ Truthy(r.args.jsonl_filename) /\ r.args.db_handler /\ ~r.existed

\* the sink ends with the records of the page fetched last
SinkHoldsPage(r) ==
    /\ Len(sink.lines) >= Len(r.page)
    /\ SubSeq(sink.lines, Len(sink.lines) - Len(r.page) + 1, Len(sink.lines)) = r.page

\* the work id of the raw record behind a line of the sink
WorkOfLine(line) == TablesGet(ParsedPool[line], "works").v.work_id

\* C29: with a file sink and a database handler configured, all records of a
\* page are in the sink before the first insert_if_not_exists call for that
\* page, so every work whose row this run committed to works has its raw
\* record in the sink; a run that a database error ended during page k has
\* all of page k in the sink.
ThmC29 ==
    \A p \in RaceProcs :
       BothConfigured(proc[p]) =>
          /\ proc[p].calls # << >> => SinkHoldsPage(proc[p])
          /\ \A n \in 1..Len(proc[p].committed) :
                proc[p].committed[n].t = "works" =>
                   \E m \in 1..Len(sink.lines) :
                      WorkOfLine(sink.lines[m]) = proc[p].committed[n].row.work_id
          /\ proc[p].exc \in InsertErrors => SinkHoldsPage(proc[p])

\* the run with sink and database ended by a uniqueness violation while it
\* stored the second record of its page: both records are in the sink, of
\* the database rows only those of the first record are its own
WitC29 ==
    \E p \in RaceProcs :
       /\ BothConfigured(proc[p])
       /\ proc[p].pc = "failed" /\ proc[p].exc = "UniqueViolation"
       /\ proc[p].rec = 2 /\ sink.lines = << 2, 1 >>
       /\ \E n \in 1..Len(proc[p].committed) : proc[p].committed[n].t = "works"
       /\ \A n \in 1..Len(proc[p].committed) : proc[p].committed[n].t # "authorships"

DimensionTables == { "primary_source", "authors", "institutions", "topics" }

\* the record behind the line has no work id
NoWorkId(line) == Absent(Pool[line], "id")

\* every row of a dimension table parsed from the record that has its key is
\* in the store
DimensionsStored(line) ==
    \A t \in DimensionTables :
       LET rows == AsList(TablesGet(ParsedPool[line], t))
       IN  \A k \in 1..Len(rows) : HasNullKey(t, rows[k]) \/ RowsWithKey(t, rows[k]) = 1

\* C30: for a record whose work id is null or absent the harvest commits no
\* row to works, authorships, cited_by_year or topics_by_work and raises no
\* insert error, while the record's primary_source, authors, institutions
\* and topics rows that have their key are in the store once the record has
\* been stored.
ThmC30 ==
    \A p \in Procs :
       /\ \A n \in 1..Len(proc[p].committed) :
             proc[p].committed[n].line # 0 /\ NoWorkId(proc[p].committed[n].line) =>
                proc[p].committed[n].t \in DimensionTables
       /\ \A i \in 1..Len(proc[p].results) :
             NoWorkId(proc[p].results[i]) =>
                /\ proc[p].rec > i => DimensionsStored(proc[p].results[i])
                /\ proc[p].rec = i => proc[p].exc \notin InsertErrors

\* after a page holding only the record without work id: its source, author,
\* institution and topic are stored, committed by this run, and no work
WitC30 ==
    \E p \in Procs :
       /\ proc[p].pc = "records" /\ proc[p].results = << 3 >> /\ proc[p].rec = 2
       /\ Len(proc[p].committed) = 4
       /\ Len(db["primary_source"]) = 1 /\ Len(db["authors"]) = 1
       /\ Len(db["institutions"]) = 1 /\ Len(db["topics"]) = 1
       /\ db["works"] = << >> /\ db["authorships"] = << >>
       /\ db["cited_by_year"] = << >> /\ db["topics_by_work"] = << >>

====
